---- MODULE Spec2Model ----
(***************************************************************************)
(* UnsafeWorldCell / UnsafeEntityCell of bevy_ecs                           *)
(* (crates/bevy_ecs/src/world/unsafe_world_cell.rs) as a state machine.     *)
(*                                                                         *)
(* The World is one set of variables (tick counters, entity index,          *)
(* storages).  Handles are values: the world cells callers hold are the set *)
(* `cells`, the write handles they hold are `muts`, and the sub-cells they  *)
(* can hold are computed (SubCells).  Every method of the file is an        *)
(* operator that computes what the method returns, and an action            *)
(* Call_<method> that invokes it on a handle, applies its effect on the     *)
(* World and leaves what it returned in `result`; `Return` is the caller    *)
(* dropping that value, `Hold` the caller keeping a returned write handle   *)
(* alive.  A panic unwinds the call: the World is left as it was.           *)
(***************************************************************************)
EXTENDS Integers, FiniteSets, Sequences, TLC

----------------------------------------------------------------------------
(* Bounds of the model *)

\* increment_change_tick calls in one behaviour
MaxIncr == 2
\* increment_trigger_id calls in one behaviour
MaxTrig == 1

----------------------------------------------------------------------------
(* u32 arithmetic.  A u32 is the pair <<high half, low half>> of 16 bit     *)
(* limbs, so that 2^32 - 1 and the wrap to 0 are representable.             *)

Limb == 2 ^ 16

U32Max == <<Limb - 1, Limb - 1>>

\* u32::wrapping_add(x, 1) and AtomicU32::fetch_add(1)'s stored value
wrapping_add_1(x) ==
    IF x[2] + 1 < Limb THEN <<x[1], x[2] + 1>>
    ELSE <<(x[1] + 1) % Limb, 0>>

----------------------------------------------------------------------------
(* Option / Result values *)

None == [out |-> "None"]
Some(x) == [out |-> "Some", v |-> x]
Ok(x) == [out |-> "Ok", v |-> x]
Err(e) == [out |-> "Err", err |-> e]
\* the call unwound with the panic message `msg`
Panicked(msg) == [out |-> "panic", msg |-> msg]

\* payloads: the one the World is populated with, and those callers write
InitValue == "v0"
Values == {"v1", "v2"}

----------------------------------------------------------------------------
(* The World's fixed metadata: component registry, archetypes, entity index *)

\* ComponentIds known to the registry, with their ComponentInfo
ComponentInfos ==
    [ cA   |-> [storage_type |-> "Table",     mutable |-> TRUE],
      cB   |-> [storage_type |-> "SparseSet", mutable |-> TRUE],
      cI   |-> [storage_type |-> "Table",     mutable |-> FALSE],
      cS   |-> [storage_type |-> "SparseSet", mutable |-> TRUE],
      rR   |-> [storage_type |-> "Table",     mutable |-> TRUE],
      rE   |-> [storage_type |-> "Table",     mutable |-> TRUE],
      rQ   |-> [storage_type |-> "Table",     mutable |-> TRUE],
      rN   |-> [storage_type |-> "Table",     mutable |-> TRUE],
      rM   |-> [storage_type |-> "Table",     mutable |-> TRUE] ]

\* ids a caller may pass: the registered ones and one never registered
ComponentIdInputs == {"cA", "cB", "cI", "cX"}
ResourceIdInputs == {"rR", "rE", "rQ", "rN", "rM", "rX"}

\* TypeId -> ComponentId of the component types (A, B, I registered and in use; S
\* registered, never inserted; X not registered)
ComponentTypeIds == [A |-> "cA", B |-> "cB", I |-> "cI", S |-> "cS"]
\* T::STORAGE_TYPE of the component types
STORAGE_TYPE == [A |-> "Table", B |-> "SparseSet", I |-> "Table", S |-> "SparseSet",
                 X |-> "Table"]
\* whether T: Component<Mutability = Mutable>
TypeIsMutable == [A |-> TRUE, B |-> TRUE, I |-> FALSE, S |-> TRUE, X |-> TRUE]
ComponentTypeInputs == {"A", "B", "I", "X"}

\* TypeId -> ComponentId of the resource types (R, E, Q send-bound; N, M thread-bound;
\* X not registered)
ResourceTypeIds == [R |-> "rR", E |-> "rE", Q |-> "rQ", N |-> "rN", M |-> "rM"]
ResourceTypeInputs == {"R", "E", "Q", "N", "M", "X"}

\* Components::get_info
get_info(component_id) ==
    IF component_id \in DOMAIN ComponentInfos THEN Some(ComponentInfos[component_id]) ELSE None

\* Components::get_valid_id
get_valid_id(type_id) ==
    IF type_id \in DOMAIN ComponentTypeIds THEN Some(ComponentTypeIds[type_id]) ELSE None

\* Components::get_id
get_id(type_id) == get_valid_id(type_id)

\* Components::get_valid_resource_id
get_valid_resource_id(type_id) ==
    IF type_id \in DOMAIN ResourceTypeIds THEN Some(ResourceTypeIds[type_id]) ELSE None

\* Archetypes: archetype id -> the component ids of the archetype
Archetypes ==
    [ arAB |-> {"cA", "cB"},
      arA  |-> {"cA"},
      arB  |-> {"cB"},
      arI  |-> {"cI"} ]

\* Archetype::contains
archetype_contains(archetype_id, component_id) == component_id \in Archetypes[archetype_id]

Entities == {"e1", "e2", "e3", "e4"}
Threads == {"main", "worker"}

----------------------------------------------------------------------------
(* State *)

VARIABLES
    debug_assertions,     \* cfg(debug_assertions) of the build
    change_tick,          \* World::change_tick (AtomicU32)
    last_change_tick,     \* World::last_change_tick
    last_trigger_id,      \* World::last_trigger_id (u32)
    entities,             \* World::entities: Entity -> Option<EntityLocation>
    tables,               \* Storages::tables: table id -> column -> row -> slot
    sparse_sets,          \* Storages::sparse_sets: component id -> entity -> slot
    resources,            \* Storages::resources: component id -> ResourceData
    non_send_resources,   \* Storages::non_send_resources
    cells,                \* the UnsafeWorldCell values callers hold
    muts,                 \* thread -> the Mut / MutUntyped write handle it holds
    sub_cells,            \* the UnsafeEntityCell values callers keep
    pending,              \* thread -> the increment_change_tick call it is inside of
    result,               \* the call in progress: method, receiver, arguments, returned value
    ticks_seen,           \* history: the values change_tick has had
    ntrig,                \* history: increment_trigger_id calls so far
    returned_ticks,       \* history: the ticks increment_change_tick has returned, in order
    written               \* history: datum -> the last payload written to it, and the handle

world_vars == <<change_tick, last_change_tick, last_trigger_id, entities>>
storage_vars == <<tables, sparse_sets, resources, non_send_resources>>
handle_vars == <<cells, muts, sub_cells, pending>>
history_vars == <<ticks_seen, ntrig, returned_ticks, written>>
vars == <<debug_assertions, world_vars, storage_vars, handle_vars, result, history_vars>>

Idle == [op |-> "idle"]

\* a stored payload with its ComponentTicks
Slot(value, added, changed) == [value |-> value, added |-> added, changed |-> changed]

\* the tick at which the World's initial content was inserted
SpawnTick == <<0, 1>>

\* the change-tick values a World is started with
InitChangeTicks == {SpawnTick, U32Max}

\* the (last_run, this_run) windows callers pass to get_entity_with_ticks
TickWindows == {<< <<0, 2>>, <<0, 9>> >>}

\* the sentence of the capability panic (it contains "is forbidden")
ForbiddenMessage == "mutating world data via World::as_unsafe_world_cell_readonly is forbidden"

EntityLocation(archetype_id, table_id, table_row) ==
    [archetype_id |-> archetype_id, table_id |-> table_id, table_row |-> table_row]

\* no write handle held
NoMut == [held |-> FALSE]

\* not inside a call
NoCall == [pc |-> "idle"]

\* a World with three live entities (e1 and e2 hold A and B and share table t1,
\* e3 holds the immutable I alone in table t2; e4 is not alive; t0 is the table
\* without columns, of the archetypes that have sparse components only), the resource R,
\* the emptied resource E and the thread-bound resource N inserted by thread main
InitWorldData ==
    /\ debug_assertions \in BOOLEAN
    /\ change_tick \in InitChangeTicks
    /\ last_change_tick = <<0, 0>>
    /\ entities = [ e1 |-> Some(EntityLocation("arAB", "t1", 0)),
                    e2 |-> Some(EntityLocation("arAB", "t1", 1)),
                    e3 |-> Some(EntityLocation("arI", "t2", 0)),
                    e4 |-> None ]
    /\ tables = [ t0 |-> << >>,
                  t1 |-> [cA |-> [row \in {0, 1} |-> Slot(InitValue, SpawnTick, SpawnTick)]],
                  t2 |-> [cI |-> [row \in {0} |-> Slot(InitValue, SpawnTick, SpawnTick)]] ]
    /\ sparse_sets = [ cB |-> [e \in {"e1", "e2"} |-> Slot(InitValue, SpawnTick, SpawnTick)] ]
    /\ resources = [ rR |-> [present |-> TRUE, value |-> InitValue,
                             added |-> SpawnTick, changed |-> SpawnTick],
                     rE |-> [present |-> FALSE] ]
    /\ non_send_resources = [ rN |-> [present |-> TRUE, value |-> InitValue,
                                      added |-> SpawnTick, changed |-> SpawnTick,
                                      origin_thread |-> "main"],
                              rM |-> [present |-> FALSE, origin_thread |-> "main"] ]
    /\ muts = [t \in Threads |-> NoMut]
    /\ sub_cells = {}
    /\ pending = [t \in Threads |-> NoCall]
    /\ result = Idle
    /\ ticks_seen = {change_tick}
    /\ ntrig = 0
    /\ returned_ticks = <<>>
    /\ written = <<>>

\* a World that has run no trigger yet
InitWorld ==
    /\ InitWorldData
    /\ last_trigger_id = <<0, 0>>

----------------------------------------------------------------------------
(* Storage layer (collaborators of the cell) *)

\* pointers into the storages
TablePtr(table_id, component_id, table_row) ==
    [st |-> "Table", table_id |-> table_id, component_id |-> component_id, table_row |-> table_row]
SparsePtr(component_id, entity) ==
    [st |-> "SparseSet", component_id |-> component_id, entity |-> entity]
ResourcePtr(component_id) == [st |-> "Resource", component_id |-> component_id]
NonSendPtr(component_id) == [st |-> "NonSend", component_id |-> component_id]

\* the slot a pointer refers to
Deref(ptr) ==
    CASE ptr.st = "Table" -> tables[ptr.table_id][ptr.component_id][ptr.table_row]
      [] ptr.st = "SparseSet" -> sparse_sets[ptr.component_id][ptr.entity]
      [] ptr.st = "Resource" -> resources[ptr.component_id]
      [] ptr.st = "NonSend" -> non_send_resources[ptr.component_id]

\* Tables::get
tables_get(table_id) == IF table_id \in DOMAIN tables THEN Some(table_id) ELSE None

\* Table::get_component, and with it get_added_tick / get_changed_tick / get_ticks_unchecked:
\* the column of the component, indexed by the row
table_get_component(table_id, component_id, table_row) ==
    IF component_id \in DOMAIN tables[table_id]
    THEN Some(TablePtr(table_id, component_id, table_row))
    ELSE None

\* SparseSets::get
sparse_sets_get(component_id) ==
    IF component_id \in DOMAIN sparse_sets THEN Some(component_id) ELSE None

\* ComponentSparseSet::get / get_with_ticks / get_ticks
sparse_set_get(component_id, entity) ==
    IF entity \in DOMAIN sparse_sets[component_id]
    THEN Some(SparsePtr(component_id, entity))
    ELSE None

\* Resources::get on `resources`
resources_get(component_id) ==
    IF component_id \in DOMAIN resources THEN Some(ResourcePtr(component_id)) ELSE None

\* Resources::get on `non_send_resources`
non_send_resources_get(component_id) ==
    IF component_id \in DOMAIN non_send_resources THEN Some(NonSendPtr(component_id)) ELSE None

\* ResourceData::validate_access: a thread-bound resource read from another thread
validate_access(ptr, thread) ==
    ptr.st = "NonSend" => Deref(ptr).origin_thread = thread

\* ResourceData::get_data / get_with_ticks: absent when no value is present,
\* a panic when the value is thread-bound and the caller is on another thread
resource_get_data(ptr, thread) ==
    IF ~Deref(ptr).present THEN None
    ELSE IF ~validate_access(ptr, thread) THEN Panicked("wrong thread")
    ELSE Some(ptr)

----------------------------------------------------------------------------
(* UnsafeWorldCell *)

\* UnsafeWorldCell::new_readonly.  The field allows_mutable_access exists in
\* debug builds only; made_by is history (the constructor that made the value).
new_readonly ==
    IF debug_assertions
    THEN [ptr |-> "World", allows_mutable_access |-> FALSE, made_by |-> "new_readonly"]
    ELSE [ptr |-> "World", made_by |-> "new_readonly"]

\* UnsafeWorldCell::new_mutable
new_mutable ==
    IF debug_assertions
    THEN [ptr |-> "World", allows_mutable_access |-> TRUE, made_by |-> "new_mutable"]
    ELSE [ptr |-> "World", made_by |-> "new_mutable"]

\* #[derive(Copy, Clone)] of UnsafeWorldCell
clone(self) == self

\* a variant of the assertion that checks nothing (the release build's, in every build);
\* C1 tells it from assert_allows_mutable_access
assert_allows_mutable_access_unchecked(self) == TRUE

\* a variant of the assertion that asks the World rather than the handle: it fails
\* while any handle without the bit exists; C21 tells it from
\* assert_allows_mutable_access
assert_allows_mutable_access_per_world(self) ==
    debug_assertions => \A c \in cells \cup {self} : c.allows_mutable_access

\* a variant of the assertion that is compiled into every build and tells the
\* handles apart by their constructor; C22 tells it from assert_allows_mutable_access
assert_allows_mutable_access_every_build(self) == self.made_by = "new_mutable"

\* UnsafeWorldCell::assert_allows_mutable_access: TRUE when the call returns,
\* FALSE when it panics
assert_allows_mutable_access(self) ==
    debug_assertions => self.allows_mutable_access

\* UnsafeWorldCell::world_mut
world_mut(self) ==
    IF ~assert_allows_mutable_access(self) THEN Panicked(ForbiddenMessage)
    ELSE Ok(self.ptr)

\* UnsafeWorldCell::change_tick
read_change_tick(self) == change_tick

\* UnsafeWorldCell::last_change_tick
read_last_change_tick(self) == last_change_tick

\* UnsafeWorldCell::last_trigger_id
read_last_trigger_id(self) == last_trigger_id

\* a variant of increment_change_tick that returns the value after the addition;
\* C12 tells it from increment_change_tick
increment_change_tick_add_fetch(self) ==
    [ret |-> Ok(wrapping_add_1(change_tick)), change_tick |-> wrapping_add_1(change_tick)]

\* a variant of increment_change_tick that stops at u32::MAX instead of wrapping;
\* C13 tells it from increment_change_tick
increment_change_tick_saturating(self) ==
    [ret |-> Ok(change_tick),
     change_tick |-> IF change_tick = U32Max THEN U32Max ELSE wrapping_add_1(change_tick)]

\* a variant of increment_change_tick that loads the counter when the call is
\* entered and stores the loaded value plus one later, instead of one
\* read-modify-write; C29 tells it from increment_change_tick
increment_change_tick_load_store(self) ==
    LET t == CHOOSE th \in Threads : pending[th].pc = "fetch_add"
        loaded == pending[t].entered
    IN [ret |-> Ok(loaded), change_tick |-> wrapping_add_1(loaded)]

\* UnsafeWorldCell::increment_change_tick: what it returns and what it stores
increment_change_tick(self) ==
    [ret |-> Ok(change_tick), change_tick |-> wrapping_add_1(change_tick)]

\* a variant of increment_trigger_id without the capability assertion;
\* C3 tells it from increment_trigger_id
increment_trigger_id_unguarded(self) ==
    [ret |-> Ok("unit"), last_trigger_id |-> wrapping_add_1(last_trigger_id)]

\* a variant of increment_trigger_id that stops at u32::MAX instead of wrapping;
\* C14 tells it from increment_trigger_id
increment_trigger_id_saturating(self) ==
    IF ~assert_allows_mutable_access(self)
    THEN [ret |-> Panicked(ForbiddenMessage), last_trigger_id |-> last_trigger_id]
    ELSE [ret |-> Ok("unit"),
          last_trigger_id |-> IF last_trigger_id = U32Max THEN U32Max
                              ELSE wrapping_add_1(last_trigger_id)]

\* UnsafeWorldCell::increment_trigger_id: what it returns and what it stores
increment_trigger_id(self) ==
    IF ~assert_allows_mutable_access(self)
    THEN [ret |-> Panicked(ForbiddenMessage), last_trigger_id |-> last_trigger_id]
    ELSE [ret |-> Ok("unit"), last_trigger_id |-> wrapping_add_1(last_trigger_id)]

\* UnsafeWorldCell::get_raw_command_queue
get_raw_command_queue(self) ==
    IF ~assert_allows_mutable_access(self) THEN Panicked(ForbiddenMessage)
    ELSE Ok("command_queue")

\* UnsafeEntityCell::new
UnsafeEntityCell_new(world, entity, location, last_run, this_run) ==
    [world |-> world, entity |-> entity, location |-> location,
     last_run |-> last_run, this_run |-> this_run]

\* a variant of get_entity whose sub-cell carries a write-capable cell;
\* C4 tells it from get_entity
get_entity_escalating(self, entity) ==
    LET location == entities[entity] IN
    IF location.out = "None" THEN Err([EntityDoesNotExistError |-> entity])
    ELSE Ok(UnsafeEntityCell_new(new_mutable, entity, location.v, last_change_tick,
                                 read_change_tick(self)))

\* a variant of get_entity that passes the World's ticks in the other order;
\* C16 tells it from get_entity
get_entity_swapped_ticks(self, entity) ==
    LET location == entities[entity] IN
    IF location.out = "None" THEN Err([EntityDoesNotExistError |-> entity])
    ELSE Ok(UnsafeEntityCell_new(self, entity, location.v, read_change_tick(self),
                                 last_change_tick))

\* UnsafeWorldCell::get_entity
get_entity(self, entity) ==
    LET location == entities[entity] IN
    IF location.out = "None" THEN Err([EntityDoesNotExistError |-> entity])
    ELSE Ok(UnsafeEntityCell_new(self, entity, location.v, last_change_tick,
                                 read_change_tick(self)))

\* a variant of get_entity_with_ticks that asks for the write capability;
\* C15 tells it from get_entity_with_ticks
get_entity_with_ticks_asserting(self, entity, last_run, this_run) ==
    LET location == entities[entity] IN
    IF ~assert_allows_mutable_access(self) THEN Panicked(ForbiddenMessage)
    ELSE IF location.out = "None" THEN Err([EntityDoesNotExistError |-> entity])
    ELSE Ok(UnsafeEntityCell_new(self, entity, location.v, last_run, this_run))

\* UnsafeWorldCell::get_entity_with_ticks
get_entity_with_ticks(self, entity, last_run, this_run) ==
    LET location == entities[entity] IN
    IF location.out = "None" THEN Err([EntityDoesNotExistError |-> entity])
    ELSE Ok(UnsafeEntityCell_new(self, entity, location.v, last_run, this_run))

\* Ticks::from_tick_cells: the read view of a slot's ticks
Ticks_from_tick_cells(tick_cells, last_run, this_run) ==
    [added |-> Deref(tick_cells.added).added, changed |-> Deref(tick_cells.changed).changed,
     last_run |-> last_run, this_run |-> this_run]

\* TicksMut::from_tick_cells: the write view of a slot's ticks
TicksMut_from_tick_cells(tick_cells, last_run, this_run) ==
    [added |-> tick_cells.added, changed |-> tick_cells.changed,
     last_run |-> last_run, this_run |-> this_run]

\* the TickCells stored beside the payload `ptr` points to
TickCells(ptr) == [added |-> ptr, changed |-> ptr]

\* the thread send-bound resources are read from (they carry no thread check)
AnyThread == "main"

\* a variant of get_resource_by_id that expects the storage entry to exist;
\* C18 tells it from get_resource_by_id
get_resource_by_id_expecting(self, component_id) ==
    LET data == resources_get(component_id) IN
    IF data.out = "None" THEN Panicked("resource does not exist")
    ELSE resource_get_data(data.v, AnyThread)

\* UnsafeWorldCell::get_resource_by_id
get_resource_by_id(self, component_id) ==
    LET data == resources_get(component_id) IN
    IF data.out = "None" THEN None ELSE resource_get_data(data.v, AnyThread)

\* UnsafeWorldCell::get_resource_with_ticks
get_resource_with_ticks(self, component_id) ==
    LET data == resources_get(component_id) IN
    IF data.out = "None" THEN None
    ELSE LET got == resource_get_data(data.v, AnyThread) IN
         IF got.out # "Some" THEN got
         ELSE Some([ptr |-> got.v, ticks |-> TickCells(got.v)])

\* UnsafeWorldCell::get_resource
get_resource(self, R) ==
    LET component_id == get_valid_resource_id(R) IN
    IF component_id.out = "None" THEN None
    ELSE LET ptr == get_resource_by_id(self, component_id.v) IN
         IF ptr.out # "Some" THEN ptr ELSE Some(Deref(ptr.v).value)

\* UnsafeWorldCell::get_resource_ref
get_resource_ref(self, R) ==
    LET component_id == get_valid_resource_id(R) IN
    IF component_id.out = "None" THEN None
    ELSE LET got == get_resource_with_ticks(self, component_id.v) IN
         IF got.out # "Some" THEN got
         ELSE Some([value |-> Deref(got.v.ptr).value,
                    ticks |-> Ticks_from_tick_cells(got.v.ticks, last_change_tick,
                                                    read_change_tick(self))])

\* UnsafeWorldCell::get_non_send_resource_by_id, called on `thread`
get_non_send_resource_by_id(self, component_id, thread) ==
    LET data == non_send_resources_get(component_id) IN
    IF data.out = "None" THEN None ELSE resource_get_data(data.v, thread)

\* UnsafeWorldCell::get_non_send_with_ticks, called on `thread`
get_non_send_with_ticks(self, component_id, thread) ==
    LET data == non_send_resources_get(component_id) IN
    IF data.out = "None" THEN None
    ELSE LET got == resource_get_data(data.v, thread) IN
         IF got.out # "Some" THEN got
         ELSE Some([ptr |-> got.v, ticks |-> TickCells(got.v)])

\* UnsafeWorldCell::get_non_send_resource, called on `thread`
get_non_send_resource(self, R, thread) ==
    LET component_id == get_valid_resource_id(R) IN
    IF component_id.out = "None" THEN None
    ELSE LET ptr == get_non_send_resource_by_id(self, component_id.v, thread) IN
         IF ptr.out # "Some" THEN ptr ELSE Some(Deref(ptr.v).value)

\* MutUntyped { value, ticks }
MutUntyped(ptr, ticks) == [value |-> ptr, ticks |-> ticks]

\* a variant of get_resource_mut_by_id that passes the ticks in the other order;
\* C8 tells it from get_resource_mut_by_id
get_resource_mut_by_id_swapped_ticks(self, component_id) ==
    IF ~assert_allows_mutable_access(self) THEN Panicked(ForbiddenMessage)
    ELSE LET data == resources_get(component_id) IN
         IF data.out = "None" THEN None
         ELSE LET got == resource_get_data(data.v, AnyThread) IN
              IF got.out # "Some" THEN got
              ELSE Some(MutUntyped(got.v,
                            TicksMut_from_tick_cells(TickCells(got.v), read_change_tick(self),
                                                     last_change_tick)))

\* a variant of get_resource_mut_by_id that hands out one write handle per resource at a
\* time (absent while one is alive); C11 tells it from get_resource_mut_by_id
get_resource_mut_by_id_exclusive(self, component_id) ==
    IF ~assert_allows_mutable_access(self) THEN Panicked(ForbiddenMessage)
    ELSE LET data == resources_get(component_id) IN
         IF data.out = "None" THEN None
         ELSE IF \E t \in Threads : muts[t] # NoMut /\ muts[t].mut.value = data.v THEN None
         ELSE LET got == resource_get_data(data.v, AnyThread) IN
              IF got.out # "Some" THEN got
              ELSE Some(MutUntyped(got.v,
                            TicksMut_from_tick_cells(TickCells(got.v), last_change_tick,
                                                     read_change_tick(self))))

\* UnsafeWorldCell::get_resource_mut_by_id
get_resource_mut_by_id(self, component_id) ==
    IF ~assert_allows_mutable_access(self) THEN Panicked(ForbiddenMessage)
    ELSE LET data == resources_get(component_id) IN
         IF data.out = "None" THEN None
         ELSE LET got == resource_get_data(data.v, AnyThread) IN
              IF got.out # "Some" THEN got
              ELSE Some(MutUntyped(got.v,
                            TicksMut_from_tick_cells(TickCells(got.v), last_change_tick,
                                                     read_change_tick(self))))

\* UnsafeWorldCell::get_resource_mut
get_resource_mut(self, R) ==
    IF ~assert_allows_mutable_access(self) THEN Panicked(ForbiddenMessage)
    ELSE LET component_id == get_valid_resource_id(R) IN
         IF component_id.out = "None" THEN None
         ELSE get_resource_mut_by_id(self, component_id.v)

\* a variant of get_non_send_resource_mut_by_id that reads the value as a send-bound
\* resource is read, from any thread; C19 tells it from get_non_send_resource_mut_by_id
get_non_send_resource_mut_by_id_any_thread(self, component_id, thread) ==
    IF ~assert_allows_mutable_access(self) THEN Panicked(ForbiddenMessage)
    ELSE LET tick == read_change_tick(self)
             data == non_send_resources_get(component_id) IN
         IF data.out = "None" THEN None
         ELSE LET got == resource_get_data(data.v, Deref(data.v).origin_thread) IN
              IF got.out # "Some" THEN got
              ELSE Some(MutUntyped(got.v,
                            TicksMut_from_tick_cells(TickCells(got.v), last_change_tick, tick)))

\* UnsafeWorldCell::get_non_send_resource_mut_by_id, called on `thread`
get_non_send_resource_mut_by_id(self, component_id, thread) ==
    IF ~assert_allows_mutable_access(self) THEN Panicked(ForbiddenMessage)
    ELSE LET tick == read_change_tick(self)
             data == non_send_resources_get(component_id) IN
         IF data.out = "None" THEN None
         ELSE LET got == resource_get_data(data.v, thread) IN
              IF got.out # "Some" THEN got
              ELSE Some(MutUntyped(got.v,
                            TicksMut_from_tick_cells(TickCells(got.v), last_change_tick, tick)))

\* UnsafeWorldCell::get_non_send_resource_mut, called on `thread`
get_non_send_resource_mut(self, R, thread) ==
    IF ~assert_allows_mutable_access(self) THEN Panicked(ForbiddenMessage)
    ELSE LET component_id == get_valid_resource_id(R) IN
         IF component_id.out = "None" THEN None
         ELSE get_non_send_resource_mut_by_id(self, component_id.v, thread)

----------------------------------------------------------------------------
(* Storage dispatch *)

\* UnsafeWorldCell::fetch_table
fetch_table(self, location) == tables_get(location.table_id)

\* UnsafeWorldCell::fetch_sparse_set
fetch_sparse_set(self, component_id) == sparse_sets_get(component_id)

\* a variant of get_component that reads the first row of the table column, whatever
\* the entity's row; C9 tells it from get_component
get_component_first_row(world, component_id, storage_type, entity, location) ==
    IF storage_type = "Table"
    THEN LET table == fetch_table(world, location) IN
         IF table.out = "None" THEN None
         ELSE table_get_component(table.v, component_id, 0)
    ELSE LET set == fetch_sparse_set(world, component_id) IN
         IF set.out = "None" THEN None ELSE sparse_set_get(set.v, entity)

\* a variant of get_component that resolves the entity's location again in the entity
\* index instead of using the one it is given; C25 tells it from get_component
get_component_resolving(world, component_id, storage_type, entity, location) ==
    LET current == IF entities[entity].out = "Some" THEN entities[entity].v ELSE location IN
    IF storage_type = "Table"
    THEN LET table == fetch_table(world, current) IN
         IF table.out = "None" THEN None
         ELSE table_get_component(table.v, component_id, current.table_row)
    ELSE LET set == fetch_sparse_set(world, component_id) IN
         IF set.out = "None" THEN None
         ELSE sparse_set_get(set.v, entity)

\* get_component
get_component(world, component_id, storage_type, entity, location) ==
    IF storage_type = "Table"
    THEN LET table == fetch_table(world, location) IN
         IF table.out = "None" THEN None
         ELSE table_get_component(table.v, component_id, location.table_row)
    ELSE LET set == fetch_sparse_set(world, component_id) IN
         IF set.out = "None" THEN None
         ELSE sparse_set_get(set.v, entity)

\* a variant of get_component_and_ticks that takes the first entry of the sparse set,
\* whatever the entity; C10 tells it from get_component_and_ticks
get_component_and_ticks_any_entity(world, component_id, storage_type, entity, location) ==
    IF storage_type = "Table"
    THEN LET table == fetch_table(world, location) IN
         IF table.out = "None" THEN None
         ELSE LET ptr == table_get_component(table.v, component_id, location.table_row) IN
              IF ptr.out = "None" THEN None
              ELSE Some([ptr |-> ptr.v, ticks |-> TickCells(ptr.v)])
    ELSE LET set == fetch_sparse_set(world, component_id) IN
         IF set.out = "None" THEN None
         ELSE LET ptr == sparse_set_get(set.v, "e1") IN
              IF ptr.out = "None" THEN None
              ELSE Some([ptr |-> ptr.v, ticks |-> TickCells(ptr.v)])

\* get_component_and_ticks
get_component_and_ticks(world, component_id, storage_type, entity, location) ==
    IF storage_type = "Table"
    THEN LET table == fetch_table(world, location) IN
         IF table.out = "None" THEN None
         ELSE LET ptr == table_get_component(table.v, component_id, location.table_row) IN
              IF ptr.out = "None" THEN None
              ELSE Some([ptr |-> ptr.v,
                         ticks |-> [added |-> table_get_component(table.v, component_id,
                                                                  location.table_row).v,
                                    changed |-> table_get_component(table.v, component_id,
                                                                    location.table_row).v]])
    ELSE LET set == fetch_sparse_set(world, component_id) IN
         IF set.out = "None" THEN None
         ELSE LET ptr == sparse_set_get(set.v, entity) IN
              IF ptr.out = "None" THEN None
              ELSE Some([ptr |-> ptr.v, ticks |-> TickCells(ptr.v)])

\* a variant of get_ticks that reads the table column whatever the storage kind of the
\* component; C27 tells it from get_ticks
get_ticks_table_only(world, component_id, storage_type, entity, location) ==
    LET table == fetch_table(world, location) IN
    IF table.out = "None" THEN None
    ELSE LET ptr == table_get_component(table.v, component_id, location.table_row) IN
         IF ptr.out = "None" THEN None
         ELSE Some([added |-> Deref(ptr.v).added, changed |-> Deref(ptr.v).changed])

\* get_ticks
get_ticks(world, component_id, storage_type, entity, location) ==
    IF storage_type = "Table"
    THEN LET table == fetch_table(world, location) IN
         IF table.out = "None" THEN None
         ELSE LET ptr == table_get_component(table.v, component_id, location.table_row) IN
              IF ptr.out = "None" THEN None
              ELSE Some([added |-> Deref(ptr.v).added, changed |-> Deref(ptr.v).changed])
    ELSE LET set == fetch_sparse_set(world, component_id) IN
         IF set.out = "None" THEN None
         ELSE LET ptr == sparse_set_get(set.v, entity) IN
              IF ptr.out = "None" THEN None
              ELSE Some([added |-> Deref(ptr.v).added, changed |-> Deref(ptr.v).changed])

----------------------------------------------------------------------------
(* UnsafeEntityCell *)

\* #[derive(Copy, Clone)] of UnsafeEntityCell
clone_entity_cell(self) == self

\* UnsafeEntityCell::id
UnsafeEntityCell_id(self) == self.entity

\* UnsafeEntityCell::location
UnsafeEntityCell_location(self) == self.location

\* UnsafeEntityCell::world
entity_world(self) == self.world

\* a variant of contains_id that asks every archetype of the World instead of the one
\* of the sub-cell's location; C23 tells it from contains_id
contains_id_any_archetype(self, component_id) ==
    \E archetype_id \in DOMAIN Archetypes : archetype_contains(archetype_id, component_id)

\* UnsafeEntityCell::contains_id
contains_id(self, component_id) ==
    archetype_contains(self.location.archetype_id, component_id)

\* a variant of contains_type_id that only asks whether the type is registered;
\* C17 tells it from contains_type_id
contains_type_id_registered(self, type_id) ==
    LET id == get_id(type_id) IN
    IF id.out = "None" THEN FALSE ELSE TRUE

\* UnsafeEntityCell::contains_type_id
contains_type_id(self, type_id) ==
    LET id == get_id(type_id) IN
    IF id.out = "None" THEN FALSE ELSE contains_id(self, id.v)

\* UnsafeEntityCell::contains
contains(self, T) == contains_type_id(self, T)

\* UnsafeEntityCell::get
get(self, T) ==
    LET component_id == get_valid_id(T) IN
    IF component_id.out = "None" THEN None
    ELSE LET ptr == get_component(self.world, component_id.v, STORAGE_TYPE[T],
                                  self.entity, self.location) IN
         IF ptr.out = "None" THEN None ELSE Some(Deref(ptr.v).value)

\* UnsafeEntityCell::get_ref
get_ref(self, T) ==
    LET last_tick == self.last_run
        tick == self.this_run
        component_id == get_valid_id(T) IN
    IF component_id.out = "None" THEN None
    ELSE LET got == get_component_and_ticks(self.world, component_id.v, STORAGE_TYPE[T],
                                            self.entity, self.location) IN
         IF got.out = "None" THEN None
         ELSE Some([value |-> Deref(got.v.ptr).value,
                    ticks |-> Ticks_from_tick_cells(got.v.ticks, last_tick, tick)])

\* UnsafeEntityCell::get_change_ticks
get_change_ticks(self, T) ==
    LET component_id == get_valid_id(T) IN
    IF component_id.out = "None" THEN None
    ELSE get_ticks(self.world, component_id.v, STORAGE_TYPE[T], self.entity, self.location)

\* UnsafeEntityCell::get_change_ticks_by_id
get_change_ticks_by_id(self, component_id) ==
    LET info == get_info(component_id) IN
    IF info.out = "None" THEN None
    ELSE get_ticks(self.world, component_id, info.v.storage_type, self.entity, self.location)

\* a variant of get_mut_using_ticks_assume_mutable that stamps the World's change tick
\* instead of the tick it is given; C6 tells it from get_mut_using_ticks_assume_mutable
get_mut_using_world_tick_assume_mutable(self, T, last_tick, tick) ==
    IF ~assert_allows_mutable_access(self.world) THEN Panicked(ForbiddenMessage)
    ELSE LET component_id == get_valid_id(T) IN
         IF component_id.out = "None" THEN None
         ELSE LET got == get_component_and_ticks(self.world, component_id.v, STORAGE_TYPE[T],
                                                 self.entity, self.location) IN
              IF got.out = "None" THEN None
              ELSE Some(MutUntyped(got.v.ptr,
                                   TicksMut_from_tick_cells(got.v.ticks, last_tick,
                                                            read_change_tick(self.world))))

\* UnsafeEntityCell::get_mut_using_ticks_assume_mutable
get_mut_using_ticks_assume_mutable(self, T, last_tick, tick) ==
    IF ~assert_allows_mutable_access(self.world) THEN Panicked(ForbiddenMessage)
    ELSE LET component_id == get_valid_id(T) IN
         IF component_id.out = "None" THEN None
         ELSE LET got == get_component_and_ticks(self.world, component_id.v, STORAGE_TYPE[T],
                                                 self.entity, self.location) IN
              IF got.out = "None" THEN None
              ELSE Some(MutUntyped(got.v.ptr,
                                   TicksMut_from_tick_cells(got.v.ticks, last_tick, tick)))

\* UnsafeEntityCell::get_mut_assume_mutable
get_mut_assume_mutable(self, T) ==
    get_mut_using_ticks_assume_mutable(self, T, self.last_run, self.this_run)

\* UnsafeEntityCell::get_mut (T: Component<Mutability = Mutable>)
get_mut(self, T) == get_mut_assume_mutable(self, T)

\* the query descriptors Q tried: what Q::get_state answers (a state or nothing) and
\* the component ids Q::matches_component_set asks the archetype for
Queries ==
    { [q |-> "A",   state |-> TRUE,  required |-> {"cA"}],
      [q |-> "AB",  state |-> TRUE,  required |-> {"cA", "cB"}],
      [q |-> "I",   state |-> TRUE,  required |-> {"cI"}],
      [q |-> "Any", state |-> TRUE,  required |-> {}],
      [q |-> "X",   state |-> FALSE, required |-> {}] }

\* Q::get_state
Q_get_state(Q) == IF Q.state THEN Some(Q.q) ELSE None

\* Q::matches_component_set with the closure |id| archetype.contains(id)
Q_matches_component_set(Q, archetype_id) ==
    \A id \in Q.required : archetype_contains(archetype_id, id)

\* Q::release_state(Q::fetch(state, fetch, entity, table_row)), fetch being initialised by
\* init_fetch and set_archetype
Q_item(Q, self, location) ==
    [query |-> Q.q, entity |-> UnsafeEntityCell_id(self), table |-> location.table_id,
     table_row |-> location.table_row, last_run |-> self.last_run, this_run |-> self.this_run]

\* the calls of the descriptor after a successful match
FetchCalls(self, location) ==
    << [fn |-> "init_fetch", last_run |-> self.last_run, this_run |-> self.this_run],
       [fn |-> "set_archetype", archetype |-> location.archetype_id,
        table |-> location.table_id],
       [fn |-> "fetch", entity |-> UnsafeEntityCell_id(self),
        table_row |-> location.table_row],
       [fn |-> "release_state"] >>

\* a variant of get_components that initialises the fetch before it asks whether the
\* archetype matches; C26 tells it from get_components
get_components_fetch_first(self, Q) ==
    LET state == Q_get_state(Q)
        location == UnsafeEntityCell_location(self)
        init == [fn |-> "init_fetch", last_run |-> self.last_run, this_run |-> self.this_run]
        matches == [fn |-> "matches_component_set", archetype |-> location.archetype_id]
    IN IF state.out = "None" THEN [ret |-> None, calls |-> << [fn |-> "get_state"] >>]
       ELSE IF Q_matches_component_set(Q, location.archetype_id)
            THEN [ret |-> Some(Q_item(Q, self, location)),
                  calls |-> << [fn |-> "get_state"], init, matches >>
                                \o Tail(FetchCalls(self, location))]
            ELSE [ret |-> None, calls |-> << [fn |-> "get_state"], init, matches >>]

\* UnsafeEntityCell::get_components: the returned item and the calls of the query
\* descriptor, in order
get_components(self, Q) ==
    LET state == Q_get_state(Q) IN
    IF state.out = "None" THEN [ret |-> None, calls |-> << [fn |-> "get_state"] >>]
    ELSE LET location == UnsafeEntityCell_location(self)
             matches == [fn |-> "matches_component_set",
                         archetype |-> location.archetype_id]
         IN IF Q_matches_component_set(Q, location.archetype_id)
            THEN [ret |-> Some(Q_item(Q, self, location)),
                  calls |-> << [fn |-> "get_state"], matches >>
                                \o FetchCalls(self, location)]
            ELSE [ret |-> None, calls |-> << [fn |-> "get_state"], matches >>]

\* UnsafeEntityCell::get_by_id
get_by_id(self, component_id) ==
    LET info == get_info(component_id) IN
    IF info.out = "None" THEN None
    ELSE get_component(self.world, component_id, info.v.storage_type,
                       self.entity, self.location)

\* a variant of get_mut_by_id that asserts the capability after the lookups;
\* C2 tells it from get_mut_by_id
get_mut_by_id_lookup_first(self, component_id) ==
    LET info == get_info(component_id) IN
    IF info.out = "None" THEN Err("InfoNotFound")
    ELSE IF ~info.v.mutable THEN Err("ComponentIsImmutable")
    ELSE LET got == get_component_and_ticks(self.world, component_id,
                            info.v.storage_type, self.entity, self.location) IN
         IF got.out = "None" THEN Err("ComponentNotFound")
         ELSE IF ~assert_allows_mutable_access(self.world) THEN Panicked(ForbiddenMessage)
         ELSE Ok(MutUntyped(got.v.ptr,
                     TicksMut_from_tick_cells(got.v.ticks, self.last_run, self.this_run)))

\* a variant of get_mut_by_id that looks the component up before it checks mutability;
\* C5 tells it from get_mut_by_id
get_mut_by_id_presence_first(self, component_id) ==
    IF ~assert_allows_mutable_access(self.world) THEN Panicked(ForbiddenMessage)
    ELSE LET info == get_info(component_id) IN
         IF info.out = "None" THEN Err("InfoNotFound")
         ELSE LET got == get_component_and_ticks(self.world, component_id,
                                 info.v.storage_type, self.entity, self.location) IN
              IF got.out = "None" THEN Err("ComponentNotFound")
              ELSE IF ~info.v.mutable THEN Err("ComponentIsImmutable")
              ELSE Ok(MutUntyped(got.v.ptr,
                          TicksMut_from_tick_cells(got.v.ticks, self.last_run, self.this_run)))

\* a variant of get_mut_by_id that asks the archetype for the component before it asks
\* the registry; C28 tells it from get_mut_by_id
get_mut_by_id_archetype_first(self, component_id) ==
    IF ~assert_allows_mutable_access(self.world) THEN Panicked(ForbiddenMessage)
    ELSE IF ~contains_id(self, component_id) THEN Err("ComponentNotFound")
    ELSE LET info == get_info(component_id) IN
         IF info.out = "None" THEN Err("InfoNotFound")
         ELSE IF ~info.v.mutable THEN Err("ComponentIsImmutable")
         ELSE LET got == get_component_and_ticks(self.world, component_id,
                                 info.v.storage_type, self.entity, self.location) IN
              IF got.out = "None" THEN Err("ComponentNotFound")
              ELSE Ok(MutUntyped(got.v.ptr,
                          TicksMut_from_tick_cells(got.v.ticks, self.last_run, self.this_run)))

\* UnsafeEntityCell::get_mut_by_id
get_mut_by_id(self, component_id) ==
    IF ~assert_allows_mutable_access(self.world) THEN Panicked(ForbiddenMessage)
    ELSE LET info == get_info(component_id) IN
         IF info.out = "None" THEN Err("InfoNotFound")
         ELSE IF ~info.v.mutable THEN Err("ComponentIsImmutable")
         ELSE LET got == get_component_and_ticks(self.world, component_id,
                                 info.v.storage_type, self.entity, self.location) IN
              IF got.out = "None" THEN Err("ComponentNotFound")
              ELSE Ok(MutUntyped(got.v.ptr,
                          TicksMut_from_tick_cells(got.v.ticks, self.last_run, self.this_run)))

\* a variant of get_mut_assume_mutable_by_id that looks for the component before it
\* looks at the metadata, and so answers ComponentNotFound for an unknown id;
\* C20 tells it from get_mut_assume_mutable_by_id
get_mut_assume_mutable_by_id_presence_first(self, component_id) ==
    IF ~assert_allows_mutable_access(self.world) THEN Panicked(ForbiddenMessage)
    ELSE IF ~contains_id(self, component_id) THEN Err("ComponentNotFound")
    ELSE LET info == get_info(component_id) IN
         IF info.out = "None" THEN Err("InfoNotFound")
         ELSE LET got == get_component_and_ticks(self.world, component_id,
                                 info.v.storage_type, self.entity, self.location) IN
              IF got.out = "None" THEN Err("ComponentNotFound")
              ELSE Ok(MutUntyped(got.v.ptr,
                          TicksMut_from_tick_cells(got.v.ticks, self.last_run, self.this_run)))

\* a variant of get_mut_assume_mutable_by_id that reads the World's change tick when the
\* handle is built instead of the sub-cell's this_run; C24 tells it from
\* get_mut_assume_mutable_by_id
get_mut_assume_mutable_by_id_world_tick(self, component_id) ==
    IF ~assert_allows_mutable_access(self.world) THEN Panicked(ForbiddenMessage)
    ELSE LET info == get_info(component_id) IN
         IF info.out = "None" THEN Err("InfoNotFound")
         ELSE LET got == get_component_and_ticks(self.world, component_id,
                                 info.v.storage_type, self.entity, self.location) IN
              IF got.out = "None" THEN Err("ComponentNotFound")
              ELSE Ok(MutUntyped(got.v.ptr,
                          TicksMut_from_tick_cells(got.v.ticks, self.last_run,
                                                   read_change_tick(self.world))))

\* UnsafeEntityCell::get_mut_assume_mutable_by_id
get_mut_assume_mutable_by_id(self, component_id) ==
    IF ~assert_allows_mutable_access(self.world) THEN Panicked(ForbiddenMessage)
    ELSE LET info == get_info(component_id) IN
         IF info.out = "None" THEN Err("InfoNotFound")
         ELSE LET got == get_component_and_ticks(self.world, component_id,
                                 info.v.storage_type, self.entity, self.location) IN
              IF got.out = "None" THEN Err("ComponentNotFound")
              ELSE Ok(MutUntyped(got.v.ptr,
                          TicksMut_from_tick_cells(got.v.ticks, self.last_run, self.this_run)))

----------------------------------------------------------------------------
(* Calls.  A call is made when no call is in progress; it leaves the method, *)
(* its receiver, its arguments, the returned value (or the panic) and the    *)
(* World's change tick at the time of the call in `result`.                  *)

Called(op, self, args, ret) ==
    [op |-> op, self |-> self, args |-> args, ret |-> ret, at |-> change_tick]

\* a call of a method that stores nothing
Pure(op, self, args, ret) ==
    /\ result = Idle
    /\ result' = Called(op, self, args, ret)
    /\ UNCHANGED <<debug_assertions, world_vars, storage_vars, handle_vars, history_vars>>

\* the live entities among `es`
Alive(es) == {e \in es : entities[e].out = "Some"}

\* The sub-cells of the entities `es` a caller holding the cells `cs` can be holding:
\* built by get_entity now or at an earlier change tick, or by get_entity_with_ticks
\* with a window of `ws`
SubCells(cs, es, ws) ==
    LET built == {get_entity(clone(c), e) : c \in cs, e \in es}
                 \cup {get_entity_with_ticks(clone(c), e, w[1], w[2]) :
                          c \in cs, e \in es,
                          w \in ws \cup {<<last_change_tick, t>> : t \in ticks_seen}}
    IN {clone_entity_cell(r.v) : r \in {b \in built : b.out = "Ok"}}

\* the sub-cells of every entity, with every window
AllSubCells == SubCells(cells, Entities, TickWindows)

\* the sub-cells among `ecs` the next call can be made through: none while a call is
\* in progress
WhenIdle(ecs) == IF result = Idle THEN ecs ELSE {}

\* the receivers of the next call of a sub-cell method
Receivers == WhenIdle(AllSubCells)

\* World::as_unsafe_world_cell_readonly / From<&World>
Call_new_readonly ==
    /\ result = Idle
    /\ cells' = cells \cup {new_readonly}
    /\ result' = Called("new_readonly", "World", <<>>, Ok(new_readonly))
    /\ UNCHANGED <<debug_assertions, world_vars, storage_vars, muts, sub_cells, pending,
                   history_vars>>

\* World::as_unsafe_world_cell / From<&mut World>
Call_new_mutable ==
    /\ result = Idle
    /\ cells' = cells \cup {new_mutable}
    /\ result' = Called("new_mutable", "World", <<>>, Ok(new_mutable))
    /\ UNCHANGED <<debug_assertions, world_vars, storage_vars, muts, sub_cells, pending,
                   history_vars>>

\* a copy of a cell
Call_clone(c) ==
    /\ result = Idle
    /\ cells' = cells \cup {clone(c)}
    /\ result' = Called("clone", c, <<>>, Ok(clone(c)))
    /\ UNCHANGED <<debug_assertions, world_vars, storage_vars, muts, sub_cells, pending,
                   history_vars>>

\* UnsafeEntityCell::world: the caller keeps the returned cell
Call_entity_world(ec) ==
    /\ result = Idle
    /\ cells' = cells \cup {entity_world(ec)}
    /\ result' = Called("entity_world", ec, <<>>, Ok(entity_world(ec)))
    /\ UNCHANGED <<debug_assertions, world_vars, storage_vars, muts, sub_cells, pending,
                   history_vars>>

Call_world_mut(c) == Pure("world_mut", c, <<>>, world_mut(c))

Call_get_raw_command_queue(c) ==
    Pure("get_raw_command_queue", c, <<>>, get_raw_command_queue(c))

Call_change_tick(c) == Pure("change_tick", c, <<>>, read_change_tick(c))

Call_last_change_tick(c) == Pure("last_change_tick", c, <<>>, read_last_change_tick(c))

Call_last_trigger_id(c) == Pure("last_trigger_id", c, <<>>, read_last_trigger_id(c))

Call_increment_change_tick(c) ==
    LET r == increment_change_tick(c) IN
    /\ result = Idle
    /\ Cardinality(ticks_seen) <= MaxIncr
    /\ change_tick' = r.change_tick
    /\ ticks_seen' = ticks_seen \cup {r.change_tick}
    /\ returned_ticks' = Append(returned_ticks, r.ret.v)
    /\ result' = Called("increment_change_tick", c, <<>>, r.ret)
    /\ UNCHANGED <<debug_assertions, last_change_tick, last_trigger_id, entities,
                   storage_vars, handle_vars, ntrig, written>>

Call_increment_trigger_id(c) ==
    LET r == increment_trigger_id(c) IN
    /\ result = Idle
    /\ ntrig < MaxTrig
    /\ last_trigger_id' = r.last_trigger_id
    /\ ntrig' = IF r.last_trigger_id = last_trigger_id THEN ntrig ELSE ntrig + 1
    /\ result' = Called("increment_trigger_id", c, <<>>, r.ret)
    /\ UNCHANGED <<debug_assertions, change_tick, last_change_tick, entities,
                   storage_vars, handle_vars, ticks_seen, returned_ticks, written>>

Call_get_entity(c, e) == Pure("get_entity", c, <<e>>, get_entity(c, e))

Call_get_entity_with_ticks(c, e, w) ==
    Pure("get_entity_with_ticks", c, <<e, w[1], w[2]>>, get_entity_with_ticks(c, e, w[1], w[2]))

Call_get_resource(c, R) == Pure("get_resource", c, <<R>>, get_resource(c, R))

Call_get_resource_ref(c, R) == Pure("get_resource_ref", c, <<R>>, get_resource_ref(c, R))

Call_get_resource_by_id(c, id) ==
    Pure("get_resource_by_id", c, <<id>>, get_resource_by_id(c, id))

Call_get_resource_with_ticks(c, id) ==
    Pure("get_resource_with_ticks", c, <<id>>, get_resource_with_ticks(c, id))

Call_get_resource_mut(c, R) == Pure("get_resource_mut", c, <<R>>, get_resource_mut(c, R))

\* a variant of the call of get_resource_mut_by_id that marks the resource changed
\* when the handle is handed out; C7 tells it from Call_get_resource_mut_by_id
Call_get_resource_mut_by_id_marking(c, id) ==
    LET ret == get_resource_mut_by_id(clone(c), id) IN
    /\ result = Idle
    /\ result' = Called("get_resource_mut_by_id", c, <<id>>, ret)
    /\ resources' = IF ret.out = "Some"
                    THEN [resources EXCEPT ![id].changed = change_tick] ELSE resources
    /\ UNCHANGED <<debug_assertions, world_vars, tables, sparse_sets, non_send_resources,
                   handle_vars, history_vars>>

Call_get_resource_mut_by_id(c, id) ==
    Pure("get_resource_mut_by_id", c, <<id>>, get_resource_mut_by_id(c, id))

Call_get_non_send_resource(c, R, thread) ==
    Pure("get_non_send_resource", c, <<R, thread>>, get_non_send_resource(c, R, thread))

Call_get_non_send_resource_by_id(c, id, thread) ==
    Pure("get_non_send_resource_by_id", c, <<id, thread>>,
         get_non_send_resource_by_id(c, id, thread))

Call_get_non_send_with_ticks(c, id, thread) ==
    Pure("get_non_send_with_ticks", c, <<id, thread>>, get_non_send_with_ticks(c, id, thread))

Call_get_non_send_resource_mut(c, R, thread) ==
    Pure("get_non_send_resource_mut", c, <<R, thread>>,
         get_non_send_resource_mut(c, R, thread))

Call_get_non_send_resource_mut_by_id(c, id, thread) ==
    Pure("get_non_send_resource_mut_by_id", c, <<id, thread>>,
         get_non_send_resource_mut_by_id(c, id, thread))

Call_get(ec, T) == Pure("get", ec, <<T>>, get(ec, T))

Call_get_ref(ec, T) == Pure("get_ref", ec, <<T>>, get_ref(ec, T))

Call_get_change_ticks(ec, T) == Pure("get_change_ticks", ec, <<T>>, get_change_ticks(ec, T))

Call_id(ec) == Pure("id", ec, <<>>, UnsafeEntityCell_id(ec))

Call_location(ec) == Pure("location", ec, <<>>, UnsafeEntityCell_location(ec))

Call_contains(ec, T) == Pure("contains", ec, <<T>>, contains(ec, T))

Call_contains_id(ec, id) == Pure("contains_id", ec, <<id>>, contains_id(ec, id))

Call_contains_type_id(ec, T) ==
    Pure("contains_type_id", ec, <<T>>, contains_type_id(ec, T))

Call_get_change_ticks_by_id(ec, id) ==
    Pure("get_change_ticks_by_id", ec, <<id>>, get_change_ticks_by_id(ec, id))

Call_get_by_id(ec, id) == Pure("get_by_id", ec, <<id>>, get_by_id(ec, id))

Call_get_components(ec, Q) ==
    LET r == get_components(ec, Q) IN
    /\ result = Idle
    /\ result' = [op |-> "get_components", self |-> ec, args |-> <<Q>>, ret |-> r.ret,
                  at |-> change_tick, calls |-> r.calls]
    /\ UNCHANGED <<debug_assertions, world_vars, storage_vars, handle_vars, history_vars>>

\* get_mut is only callable for T: Component<Mutability = Mutable>
Call_get_mut(ec, T) ==
    /\ TypeIsMutable[T]
    /\ Pure("get_mut", ec, <<T>>, get_mut(ec, T))

Call_get_mut_assume_mutable(ec, T) ==
    Pure("get_mut_assume_mutable", ec, <<T>>, get_mut_assume_mutable(ec, T))

Call_get_mut_by_id(ec, id) == Pure("get_mut_by_id", ec, <<id>>, get_mut_by_id(ec, id))

Call_get_mut_assume_mutable_by_id(ec, id) ==
    Pure("get_mut_assume_mutable_by_id", ec, <<id>>, get_mut_assume_mutable_by_id(ec, id))

\* the caller drops what the call returned (or has caught the panic)
Return ==
    /\ result # Idle
    /\ result' = Idle
    /\ UNCHANGED <<debug_assertions, world_vars, storage_vars, handle_vars, history_vars>>

----------------------------------------------------------------------------
(* Write handles *)

\* the methods that return a write handle
MutOps == {"get_resource_mut", "get_resource_mut_by_id", "get_non_send_resource_mut",
           "get_non_send_resource_mut_by_id", "get_mut", "get_mut_assume_mutable",
           "get_mut_by_id", "get_mut_assume_mutable_by_id"}

\* the call in progress has returned a write handle
ReturnedMut == result # Idle /\ result.op \in MutOps /\ result.ret.out \in {"Some", "Ok"}

\* the methods that name the component or resource by id
ByIdOps == {"get_by_id", "get_change_ticks_by_id", "get_mut_by_id",
            "get_mut_assume_mutable_by_id", "get_resource_by_id",
            "get_resource_mut_by_id", "get_non_send_resource_by_id",
            "get_non_send_resource_mut_by_id"}

\* the datum the call `r` asked for: the component of the receiver's entity, or the resource
TargetOf(r) ==
    IF r.op \in {"get", "get_ref", "get_change_ticks", "get_change_ticks_by_id", "get_by_id",
                 "get_mut", "get_mut_assume_mutable", "get_mut_by_id",
                 "get_mut_assume_mutable_by_id"}
    THEN [entity |-> r.self.entity,
          component_id |-> IF r.op \in ByIdOps THEN r.args[1] ELSE ComponentTypeIds[r.args[1]]]
    ELSE [resource |-> IF r.op \in ByIdOps THEN r.args[1] ELSE ResourceTypeIds[r.args[1]]]

\* no thread holds a write handle to the payload `ptr` points to (the caller's obligation
\* of the methods that return a write handle: no other reference to the datum exists)
Unaliased(ptr) == \A t \in Threads : muts[t] # NoMut => muts[t].mut.value # ptr

\* thread `t` keeps the write handle the call returned; `target`, `from` and `at` are
\* history: the datum asked for, the receiver, and the World's change tick at that time
Hold(t) ==
    /\ ReturnedMut
    /\ muts[t] = NoMut
    /\ Unaliased(result.ret.v.value)
    /\ muts' = [muts EXCEPT ![t] = [held |-> TRUE, mut |-> result.ret.v,
                                    target |-> TargetOf(result),
                                    from |-> result.self, at |-> result.at]]
    /\ result' = Idle
    /\ UNCHANGED <<debug_assertions, world_vars, storage_vars, cells, sub_cells, pending,
                   history_vars>>

\* thread `t` drops the write handle it holds
Drop(t) ==
    /\ result = Idle
    /\ muts[t] # NoMut
    /\ muts' = [muts EXCEPT ![t] = NoMut]
    /\ UNCHANGED <<debug_assertions, world_vars, storage_vars, cells, sub_cells, pending,
                   result, history_vars>>

\* Mut / MutUntyped written through (DerefMut, set_changed): the payload the value
\* pointer refers to becomes v, the tick the `changed` cell refers to becomes this_run
SlotAfterWrite(m, v, ptr) ==
    LET s == Deref(ptr)
        s1 == IF ptr = m.ticks.changed THEN [s EXCEPT !.changed = m.ticks.this_run] ELSE s
    IN IF ptr = m.value THEN [s1 EXCEPT !.value = v] ELSE s1

Write(t, v) ==
    LET m == muts[t].mut IN
    /\ result = Idle
    /\ muts[t] # NoMut
    /\ tables' = [tid \in DOMAIN tables |-> [cid \in DOMAIN tables[tid] |->
                    [row \in DOMAIN tables[tid][cid] |->
                        SlotAfterWrite(m, v, TablePtr(tid, cid, row))]]]
    /\ sparse_sets' = [cid \in DOMAIN sparse_sets |-> [e \in DOMAIN sparse_sets[cid] |->
                        SlotAfterWrite(m, v, SparsePtr(cid, e))]]
    /\ resources' = [id \in DOMAIN resources |->
                        IF resources[id].present
                        THEN SlotAfterWrite(m, v, ResourcePtr(id)) ELSE resources[id]]
    /\ non_send_resources' = [id \in DOMAIN non_send_resources |->
                        IF non_send_resources[id].present
                        THEN SlotAfterWrite(m, v, NonSendPtr(id)) ELSE non_send_resources[id]]
    /\ written' = [d \in DOMAIN written \cup {muts[t].target} |->
                        IF d = muts[t].target THEN [value |-> v, by |-> muts[t]]
                        ELSE written[d]]
    /\ result' = Called("write", muts[t], <<v>>, Ok("unit"))
    /\ UNCHANGED <<debug_assertions, world_vars, handle_vars, ticks_seen, ntrig,
                   returned_ticks>>

----------------------------------------------------------------------------
(* Spec: every method called through every handle, on both builds; write     *)
(* handles are obtained and dropped, never written through.                  *)

Init ==
    /\ InitWorld
    /\ cells = {}

Next ==
    \/ Call_new_readonly
    \/ Call_new_mutable
    \/ \E c \in cells : Call_clone(c)
    \/ \E c \in cells : Call_world_mut(c)
    \/ \E c \in cells : Call_get_raw_command_queue(c)
    \/ \E c \in cells : Call_change_tick(c)
    \/ \E c \in cells : Call_last_change_tick(c)
    \/ \E c \in cells : Call_last_trigger_id(c)
    \/ \E c \in cells : Call_increment_change_tick(c)
    \/ \E c \in cells : Call_increment_trigger_id(c)
    \/ \E c \in cells, e \in Entities : Call_get_entity(c, e)
    \/ \E c \in cells, e \in Entities, w \in TickWindows :
            Call_get_entity_with_ticks(c, e, w)
    \/ \E c \in cells, R \in ResourceTypeInputs : Call_get_resource(c, R)
    \/ \E c \in cells, R \in ResourceTypeInputs : Call_get_resource_ref(c, R)
    \/ \E c \in cells, id \in ResourceIdInputs : Call_get_resource_by_id(c, id)
    \/ \E c \in cells, id \in ResourceIdInputs : Call_get_resource_with_ticks(c, id)
    \/ \E c \in cells, R \in ResourceTypeInputs : Call_get_resource_mut(c, R)
    \/ \E c \in cells, id \in ResourceIdInputs : Call_get_resource_mut_by_id(c, id)
    \/ \E c \in cells, id \in ResourceIdInputs, t \in Threads :
            Call_get_non_send_with_ticks(c, id, t)
    \/ \E c \in cells, R \in ResourceTypeInputs, t \in Threads :
            Call_get_non_send_resource(c, R, t)
    \/ \E c \in cells, id \in ResourceIdInputs, t \in Threads :
            Call_get_non_send_resource_by_id(c, id, t)
    \/ \E c \in cells, R \in ResourceTypeInputs, t \in Threads :
            Call_get_non_send_resource_mut(c, R, t)
    \/ \E c \in cells, id \in ResourceIdInputs, t \in Threads :
            Call_get_non_send_resource_mut_by_id(c, id, t)
    \/ \E ec \in Receivers : Call_entity_world(ec)
    \/ \E ec \in Receivers : Call_id(ec)
    \/ \E ec \in Receivers : Call_location(ec)
    \/ \E ec \in Receivers, T \in ComponentTypeInputs : Call_contains(ec, T)
    \/ \E ec \in Receivers, id \in ComponentIdInputs : Call_contains_id(ec, id)
    \/ \E ec \in Receivers, T \in ComponentTypeInputs : Call_contains_type_id(ec, T)
    \/ \E ec \in Receivers, T \in ComponentTypeInputs : Call_get(ec, T)
    \/ \E ec \in Receivers, T \in ComponentTypeInputs : Call_get_ref(ec, T)
    \/ \E ec \in Receivers, T \in ComponentTypeInputs :
            Call_get_change_ticks(ec, T)
    \/ \E ec \in Receivers, id \in ComponentIdInputs :
            Call_get_change_ticks_by_id(ec, id)
    \/ \E ec \in Receivers, id \in ComponentIdInputs : Call_get_by_id(ec, id)
    \/ \E ec \in Receivers, T \in ComponentTypeInputs : Call_get_mut(ec, T)
    \/ \E ec \in Receivers, T \in ComponentTypeInputs :
            Call_get_mut_assume_mutable(ec, T)
    \/ \E ec \in Receivers, id \in ComponentIdInputs :
            Call_get_mut_by_id(ec, id)
    \/ \E ec \in Receivers, id \in ComponentIdInputs :
            Call_get_mut_assume_mutable_by_id(ec, id)
    \/ Return

Spec == Init /\ [][Next]_vars

----------------------------------------------------------------------------
(* Vocabulary of the properties *)

\* the methods of UnsafeEntityCell
EntityOps == {"entity_world", "id", "location", "contains", "contains_id", "contains_type_id",
              "get", "get_ref", "get_change_ticks", "get_change_ticks_by_id", "get_by_id",
              "get_mut", "get_mut_assume_mutable", "get_mut_by_id",
              "get_mut_assume_mutable_by_id"}

\* the methods that take no cell
NoCellOps == {"idle", "new_readonly", "new_mutable", "write"}

\* the world cell the call `r` was made through
CellOf(r) == IF r.op \in EntityOps THEN r.self.world ELSE r.self

\* the call `r` was made through a handle of the read-only constructor
ThroughReadOnly(r) == r.op \notin NoCellOps /\ CellOf(r).made_by = "new_readonly"

\* the call `r` was made through a handle of the read-write constructor
ThroughReadWrite(r) == r.op \notin NoCellOps /\ CellOf(r).made_by = "new_mutable"

\* the methods that hand out a mutable reference, a write handle or the command queue
MutatingOps == MutOps \cup {"world_mut", "get_raw_command_queue"}

\* the entity holds the component, by the archetype of its current location
Holds(entity, component_id) ==
    /\ entities[entity].out = "Some"
    /\ archetype_contains(entities[entity].v.archetype_id, component_id)

\* the pointer to the component of the entity, by the entity's current location
DatumOf(entity, component_id) ==
    IF ComponentInfos[component_id].storage_type = "Table"
    THEN TablePtr(entities[entity].v.table_id, component_id, entities[entity].v.table_row)
    ELSE SparsePtr(component_id, entity)

----------------------------------------------------------------------------
(* C1 - C5, C7: checked under Spec *)

\* C1: in a debug build every mutating operation (world_mut, the four resource
\* write accessors, get_raw_command_queue, and get_mut, get_mut_assume_mutable,
\* get_mut_by_id, get_mut_assume_mutable_by_id on a derived sub-cell) invoked
\* through a handle of the read-only constructor panics with the "is forbidden"
\* message, and so returns no mutable reference and no write handle.
C1_ReadOnlyNoEscalation ==
    (debug_assertions /\ result.op \in MutatingOps /\ ThroughReadOnly(result))
        => result.ret = Panicked(ForbiddenMessage)

C1_Witness ==
    /\ debug_assertions
    /\ result.op = "get_mut_assume_mutable_by_id"
    /\ ThroughReadOnly(result)
    /\ result.ret = Panicked(ForbiddenMessage)

\* C2: the capability assertion comes before any lookup: in a debug build the
\* resource write accessors and get_mut_by_id / get_mut_assume_mutable_by_id
\* report absent, InfoNotFound, ComponentIsImmutable or ComponentNotFound only
\* through a write-capable handle; through a read-only handle they panic even
\* when the type or id is unregistered, the value absent, the component
\* immutable or not held.
C2_AssertionFirst ==
    (debug_assertions /\ result.op \in MutOps /\ result.ret.out \in {"None", "Err"})
        => CellOf(result).allows_mutable_access

C2_Witness ==
    /\ debug_assertions
    /\ ThroughReadOnly(result)
    /\ \/ result.op = "get_mut_by_id" /\ result.args = <<"cX">>
       \/ result.op = "get_resource_mut_by_id" /\ result.args = <<"rX">>
    /\ result.ret.out = "panic"

\* C3 as stated: increment_change_tick and increment_trigger_id both assert the
\* write capability, so in a debug build a call through a read-only handle
\* panics and changes neither the change-tick counter nor last_trigger_id.
C3_Original ==
    [][(debug_assertions /\ ThroughReadOnly(result'))
         => /\ change_tick' = change_tick
            /\ last_trigger_id' = last_trigger_id
            /\ result'.op \in {"increment_change_tick", "increment_trigger_id"}
                  => result'.ret.out = "panic"]_vars

\* C3 amended: only increment_trigger_id asserts the write capability: in a
\* debug build, through a read-only handle it panics and no call changes
\* last_trigger_id; increment_change_tick asserts nothing: through a read-only
\* handle it returns the old tick and advances the counter by one.
C3_TriggerIdGuarded ==
    [][(debug_assertions /\ ThroughReadOnly(result'))
         => /\ last_trigger_id' = last_trigger_id
            /\ result'.op = "increment_trigger_id" => result'.ret = Panicked(ForbiddenMessage)
            /\ result'.op = "increment_change_tick"
                  => /\ result'.ret = Ok(change_tick)
                     /\ change_tick' = wrapping_add_1(change_tick)]_vars

C3_Witness ==
    /\ debug_assertions
    /\ result.op = "increment_trigger_id"
    /\ ThroughReadOnly(result)
    /\ result.ret.out = "panic"
    /\ Cardinality(ticks_seen) > 1

\* C4: the capability bit is set by the constructor (false by new_readonly, true
\* by new_mutable) and every derivation hands on the receiver's cell unchanged
\* (a copy, the cell inside a sub-cell of get_entity / get_entity_with_ticks,
\* UnsafeEntityCell::world), so no cell or sub-cell a caller holds that stems
\* from the read-only constructor has the bit true.
C4_CapabilityPreserved ==
    /\ (debug_assertions /\ result.op = "new_readonly")
            => result.ret.v.allows_mutable_access = FALSE
    /\ (debug_assertions /\ result.op = "new_mutable")
            => result.ret.v.allows_mutable_access = TRUE
    /\ result.op = "clone" => result.ret.v = result.self
    /\ (result.op \in {"get_entity", "get_entity_with_ticks"} /\ result.ret.out = "Ok")
            => result.ret.v.world = result.self
    /\ result.op = "entity_world" => result.ret.v = result.self.world
    /\ debug_assertions =>
          /\ \A c \in cells : c.made_by = "new_readonly" => ~c.allows_mutable_access
          /\ \A ec \in AllSubCells :
                ec.world.made_by = "new_readonly" => ~ec.world.allows_mutable_access

C4_Witness ==
    /\ debug_assertions
    /\ result.op = "entity_world"
    /\ result.ret.v.made_by = "new_readonly"
    /\ ~result.ret.v.allows_mutable_access
    /\ new_mutable \notin cells

C7_ReadsStoreNothing ==
    [][result'.op \in {"get_resource", "get_resource_ref", "get_resource_by_id", "get",
                       "get_ref", "get_by_id", "get_change_ticks",
                       "get_change_ticks_by_id"} \cup MutOps
         => UNCHANGED storage_vars]_vars

C7_Witness ==
    /\ result.op = "get_resource_mut_by_id"
    /\ result.ret.out = "Some"
    /\ resources["rR"].changed = SpawnTick
    /\ Cardinality(ticks_seen) > 1

----------------------------------------------------------------------------
(* SpecDisjoint: a World with a read-only and a read-write cell of it;        *)
(* two threads obtain, hold, write through and drop write handles to the      *)
(* components A (table) and B (sparse set) of e1 and e2, and anyone reads.    *)

DisjointEntities == {"e1", "e2"}
DisjointTypes == {"A", "B"}
DisjointIds == {"cA", "cB"}

\* the sub-cells write handles are obtained from
WriterCells == WhenIdle(SubCells({new_mutable}, DisjointEntities, {}))

\* the sub-cells that read
ReaderCells == WhenIdle(SubCells(cells, DisjointEntities, TickWindows))

InitDisjoint ==
    /\ InitWorld
    /\ change_tick = SpawnTick
    /\ cells = {new_readonly, new_mutable}

NextDisjoint ==
    \/ \E ec \in WriterCells, T \in DisjointTypes : Call_get_mut(ec, T)
    \/ \E ec \in WriterCells, T \in DisjointTypes : Call_get_mut_assume_mutable(ec, T)
    \/ \E ec \in WriterCells, id \in DisjointIds : Call_get_mut_by_id(ec, id)
    \/ \E ec \in WriterCells, id \in DisjointIds : Call_get_mut_assume_mutable_by_id(ec, id)
    \/ \E ec \in ReaderCells, T \in DisjointTypes : Call_get(ec, T)
    \/ \E ec \in ReaderCells, T \in DisjointTypes : Call_get_ref(ec, T)
    \/ \E ec \in ReaderCells, id \in DisjointIds : Call_get_by_id(ec, id)
    \/ \E t \in Threads : Hold(t)
    \/ \E t \in Threads : Drop(t)
    \/ \E t \in Threads, v \in Values : Write(t, v)
    \/ Return

SpecDisjoint == InitDisjoint /\ [][NextDisjoint]_vars

\* the payload a returned reference reads
ReadValue(r) ==
    CASE r.op \in {"get", "get_resource"} -> r.ret.v
      [] r.op \in {"get_ref", "get_resource_ref"} -> r.ret.v.value
      [] r.op \in {"get_by_id", "get_resource_by_id"} -> Deref(r.ret.v).value

\* C9: once a value has been written to component C of a live entity E through
\* a write handle obtained from a sub-cell of E, every read of C of E - typed
\* (get, get_ref) or by id (get_by_id), through a sub-cell of the same cell, of
\* the other cell of the World, built with any tick window - finds the
\* component and yields the last value written to it.
C9_ComponentRoundTrip ==
    (result.op \in {"get", "get_ref", "get_by_id"} /\ TargetOf(result) \in DOMAIN written)
        => /\ result.ret.out = "Some"
           /\ ReadValue(result) = written[TargetOf(result)].value

C9_Witness ==
    /\ result.op = "get_by_id"
    /\ result.self.world = new_readonly
    /\ TargetOf(result) \in DOMAIN written
    /\ written[TargetOf(result)].by.from # result.self
    /\ ReadValue(result) = "v2"

\* C10: write handles to component C of two distinct entities may be held at
\* the same time; a write through a handle of one entity changes neither the
\* payload nor the ticks of any component of another entity, and every
\* component written so far holds the last value written to that entity's
\* component, whatever the order of the writes.
C10_DisjointByEntity ==
    [][result'.op = "write" =>
         /\ \A e \in DisjointEntities, id \in DisjointIds :
               e # result'.self.target.entity
                   => Deref(DatumOf(e, id))' = Deref(DatumOf(e, id))
         /\ \A d \in DOMAIN written' :
               Deref(DatumOf(d.entity, d.component_id))'.value = written'[d].value]_vars

C10_Witness ==
    /\ result.op = "write"
    /\ muts["main"] # NoMut /\ muts["worker"] # NoMut
    /\ muts["main"].target = [entity |-> "e1", component_id |-> "cA"]
    /\ muts["worker"].target = [entity |-> "e2", component_id |-> "cA"]
    /\ result.self = muts["worker"]
    /\ {muts["main"].target, muts["worker"].target} \subseteq DOMAIN written
    /\ written[muts["main"].target].value = "v1"
    /\ written[muts["worker"].target].value = "v2"
    /\ Deref(DatumOf("e1", "cA")).value = "v1"
    /\ Deref(DatumOf("e2", "cA")).value = "v2"

----------------------------------------------------------------------------
(* SpecTicks: a World with a read-write cell whose change tick advances; one  *)
(* thread obtains, holds, writes through and drops write handles to the       *)
(* components A (table) and B (sparse set) of e1, from sub-cells built now,   *)
(* at an earlier tick or with a window of the caller.                         *)

TickEntities == {"e1"}
TickTypes == {"A", "B"}
TickIds == {"cA", "cB"}

\* the sub-cells of e1
TickSubCells == WhenIdle(SubCells(cells, TickEntities, TickWindows))

InitTicks ==
    /\ InitWorld
    /\ cells = {new_mutable}

NextTicks ==
    \/ \E c \in cells : Call_increment_change_tick(c)
    \/ \E ec \in TickSubCells, T \in TickTypes : Call_get_mut(ec, T)
    \/ \E ec \in TickSubCells, T \in TickTypes : Call_get_mut_assume_mutable(ec, T)
    \/ \E ec \in TickSubCells, id \in TickIds : Call_get_mut_by_id(ec, id)
    \/ \E ec \in TickSubCells, id \in TickIds :
            Call_get_mut_assume_mutable_by_id(ec, id)
    \/ \E ec \in TickSubCells, T \in TickTypes : Call_get_change_ticks(ec, T)
    \/ Hold("main")
    \/ Drop("main")
    \/ Write("main", "v1")
    \/ Return

SpecTicks == InitTicks /\ [][NextTicks]_vars

----------------------------------------------------------------------------
(* SpecRes: a World with a read-write cell whose change tick advances; one    *)
(* thread obtains, holds, writes through and drops write handles to the       *)
(* resources R (present) and E (registered, absent), and reads them back.     *)

ResTypes == {"R", "E"}
ResIds == {"rR", "rE"}

InitRes ==
    /\ InitWorld
    /\ cells = {new_mutable}

NextRes ==
    \/ \E c \in cells : Call_increment_change_tick(c)
    \/ \E c \in cells, R \in ResTypes : Call_get_resource_mut(c, R)
    \/ \E c \in cells, id \in ResIds : Call_get_resource_mut_by_id(c, id)
    \/ \E c \in cells, R \in ResTypes : Call_get_resource(c, R)
    \/ \E c \in cells, R \in ResTypes : Call_get_resource_ref(c, R)
    \/ \E c \in cells, id \in ResIds : Call_get_resource_by_id(c, id)
    \/ Hold("main")
    \/ Drop("main")
    \/ \E v \in Values : Write("main", v)
    \/ Return

SpecRes == InitRes /\ [][NextRes]_vars

\* the data written so far that are components / resources
WrittenComponents == {d \in DOMAIN written : "entity" \in DOMAIN d}
WrittenResources == {d \in DOMAIN written : "resource" \in DOMAIN d}

\* C6 as stated: after a write through a component write handle, the
\* component's changed tick is the World's change tick at the time the handle
\* was obtained.
C6_Original ==
    \A d \in WrittenComponents :
        Deref(DatumOf(d.entity, d.component_id)).changed = written[d].by.at

\* C6 amended: after a write through a component write handle obtained via
\* get_mut, get_mut_by_id or their assume-mutable variants, the component's
\* changed tick - in the storage and as get_change_ticks reports it - is the
\* this_run tick of the sub-cell the handle was obtained from: the World's
\* change tick when get_entity built the sub-cell, or the caller's this_run of
\* get_entity_with_ticks, whatever the World's change tick is when the handle
\* is obtained or written through; the added tick stays as it was.
C6_ChangedIsSubCellTick ==
    /\ \A d \in WrittenComponents :
          /\ Deref(DatumOf(d.entity, d.component_id)).changed = written[d].by.from.this_run
          /\ Deref(DatumOf(d.entity, d.component_id)).added = SpawnTick
    /\ (result.op = "get_change_ticks" /\ TargetOf(result) \in DOMAIN written)
          => /\ result.ret.out = "Some"
             /\ result.ret.v.changed = written[TargetOf(result)].by.from.this_run

C6_Witness ==
    /\ result.op = "write"
    /\ "entity" \in DOMAIN result.self.target
    /\ result.self.from.this_run # result.self.at
    /\ result.self.from.this_run # change_tick
    /\ result.self.from.this_run \in ticks_seen
    /\ Deref(DatumOf("e1", result.self.target.component_id)).changed
          = result.self.from.this_run

\* C8: on a read-write cell, after a write of v through a write handle obtained
\* from get_resource_mut / get_resource_mut_by_id while the World's change tick
\* was t, every later read of the resource returns v (get_resource,
\* get_resource_ref, get_resource_by_id) with changed = t (get_resource_ref),
\* until the next write; a handle obtained after increment_change_tick stamps
\* the new change tick.
C8_ResourceRoundTrip ==
    /\ \A d \in WrittenResources :
          /\ resources[d.resource].value = written[d].value
          /\ resources[d.resource].changed = written[d].by.at
    /\ (result.op \in {"get_resource", "get_resource_ref", "get_resource_by_id"}
            /\ TargetOf(result) \in DOMAIN written)
          => /\ result.ret.out = "Some"
             /\ ReadValue(result) = written[TargetOf(result)].value
             /\ result.op = "get_resource_ref"
                   => result.ret.v.ticks.changed = written[TargetOf(result)].by.at

C8_Witness ==
    /\ result.op = "get_resource_ref"
    /\ TargetOf(result) \in DOMAIN written
    /\ result.ret.v.value = "v2"
    /\ result.ret.v.ticks.changed = wrapping_add_1(U32Max)
    /\ result.ret.v.ticks.changed = written[TargetOf(result)].by.at
    /\ result.at = change_tick
    /\ Cardinality(ticks_seen) > 1

----------------------------------------------------------------------------
(* SpecAliasing: a World with a read-write cell; two threads obtain write     *)
(* handles to component A of e1 and to the resource R and keep them whether   *)
(* or not another handle to the datum is alive (callers that do not keep the  *)
(* obligation of the accessors), write through them, drop them, and read.     *)

AliasTypes == {"A"}
AliasIds == {"cA"}
AliasResTypes == {"R"}
AliasResIds == {"rR"}

\* the sub-cells of e1 built by get_entity
AliasSubCells == WhenIdle(SubCells(cells, {"e1"}, {}))

\* thread `t` keeps the write handle the call returned, whatever handles are alive
HoldUnchecked(t) ==
    /\ ReturnedMut
    /\ muts[t] = NoMut
    /\ muts' = [muts EXCEPT ![t] = [held |-> TRUE, mut |-> result.ret.v,
                                    target |-> TargetOf(result),
                                    from |-> result.self, at |-> result.at]]
    /\ result' = Idle
    /\ UNCHANGED <<debug_assertions, world_vars, storage_vars, cells, sub_cells, pending,
                   history_vars>>

InitAliasing ==
    /\ InitWorld
    /\ change_tick = SpawnTick
    /\ cells = {new_mutable}

NextAliasing ==
    \/ \E ec \in AliasSubCells, T \in AliasTypes : Call_get_mut(ec, T)
    \/ \E ec \in AliasSubCells, id \in AliasIds : Call_get_mut_by_id(ec, id)
    \/ \E ec \in AliasSubCells, T \in AliasTypes : Call_get(ec, T)
    \/ \E c \in cells, R \in AliasResTypes : Call_get_resource_mut(c, R)
    \/ \E c \in cells, id \in AliasResIds : Call_get_resource_mut_by_id(c, id)
    \/ \E c \in cells, R \in AliasResTypes : Call_get_resource(c, R)
    \/ \E t \in Threads : HoldUnchecked(t)
    \/ \E t \in Threads : Drop(t)
    \/ \E t \in Threads, v \in Values : Write(t, v)
    \/ Return

SpecAliasing == InitAliasing /\ [][NextAliasing]_vars

\* the threads that hold a write handle to the datum the call `r` names
HoldersOf(r) == {t \in Threads : muts[t] # NoMut /\ muts[t].target = TargetOf(r)}

\* C11: the cell keeps no record of live handles: on a read-write cell an
\* accessor of a datum that exists succeeds however many write handles to that
\* datum are alive, a second get_mut / get_resource_mut returns a handle to the
\* same payload and tick cells as the one alive, and so two live write handles
\* to one datum are reachable when callers do not prevent it.
C11_NoHandleTracking ==
    (result.op \in {"get_mut", "get_mut_by_id", "get", "get_resource_mut",
                    "get_resource_mut_by_id", "get_resource"}
        /\ ThroughReadWrite(result))
        => /\ result.ret.out \in {"Some", "Ok"}
           /\ result.op \in MutOps =>
                \A t \in HoldersOf(result) :
                    /\ result.ret.v.value = muts[t].mut.value
                    /\ result.ret.v.ticks.changed = muts[t].mut.ticks.changed

C11_Witness ==
    /\ muts["main"] # NoMut /\ muts["worker"] # NoMut
    /\ muts["main"].mut.value = muts["worker"].mut.value
    /\ muts["main"].target = [resource |-> "rR"]
    /\ result.op = "get_mut"
    /\ result.ret.out = "Some"

----------------------------------------------------------------------------
(* SpecCounters: a World with a read-only and a read-write cell, whose change *)
(* tick and last trigger id start low or at u32::MAX; callers increment and   *)
(* read the counters through either cell.                                     *)

\* World::last_trigger_id at the start
InitTriggerIds == {<<0, 0>>, U32Max}

InitCounters ==
    /\ InitWorldData
    /\ last_trigger_id \in InitTriggerIds
    /\ cells = {new_readonly, new_mutable}

NextCounters ==
    \/ \E c \in cells : Call_change_tick(c)
    \/ \E c \in cells : Call_last_change_tick(c)
    \/ \E c \in cells : Call_last_trigger_id(c)
    \/ \E c \in cells : Call_increment_change_tick(c)
    \/ \E c \in cells : Call_increment_trigger_id(c)
    \/ Return

SpecCounters == InitCounters /\ [][NextCounters]_vars

\* b = a + 1 modulo 2^32, on the two 16-bit limbs
IsSuccessor(a, b) ==
    IF a[2] = Limb - 1
    THEN b[2] = 0 /\ (IF a[1] = Limb - 1 THEN b[1] = 0 ELSE b[1] = a[1] + 1)
    ELSE b = <<a[1], a[2] + 1>>

\* C12: increment_change_tick returns the value the change-tick counter held
\* just before the call and advances the counter by exactly one modulo 2^32:
\* change_tick() evaluated right after the call is the returned value plus one;
\* last_change_tick and last_trigger_id stay as they were.
C12_FetchAdd ==
    [][result'.op = "increment_change_tick" =>
         /\ result'.ret = Ok(change_tick)
         /\ IsSuccessor(result'.ret.v, read_change_tick(result'.self)')
         /\ UNCHANGED <<last_change_tick, last_trigger_id>>]_vars

C12_Witness ==
    /\ result.op = "increment_change_tick"
    /\ result.ret = Ok(U32Max)
    /\ change_tick = <<0, 0>>

C14_TriggerIdWraps ==
    [][result'.op = "increment_trigger_id" =>
         /\ UNCHANGED <<change_tick, last_change_tick, entities, storage_vars>>
         /\ IF debug_assertions /\ ThroughReadOnly(result')
            THEN result'.ret = Panicked(ForbiddenMessage) /\ UNCHANGED last_trigger_id
            ELSE /\ result'.ret = Ok("unit")
                 /\ IsSuccessor(last_trigger_id, last_trigger_id')
                 /\ read_last_trigger_id(result'.self)' = last_trigger_id']_vars

C14_Witness ==
    /\ result.op = "increment_trigger_id"
    /\ ThroughReadWrite(result)
    /\ result.ret = Ok("unit")
    /\ last_trigger_id = <<0, 0>>
    /\ ntrig = 1

----------------------------------------------------------------------------
(* C15 - C20: checked under Spec *)

\* C15: get_entity and get_entity_with_ticks, through a read-only or a
\* read-write handle, fail with EntityDoesNotExistError carrying the requested
\* id exactly when the entity index has no location for the entity; otherwise
\* they return a sub-cell whose id() is the requested entity and whose
\* location() is the location the index holds; they change nothing of the World.
C15_EntityLookup ==
    [][result'.op \in {"get_entity", "get_entity_with_ticks"} =>
         LET e == result'.args[1] IN
         /\ UNCHANGED <<world_vars, storage_vars>>
         /\ IF entities[e] = None
            THEN result'.ret = Err([EntityDoesNotExistError |-> e])
            ELSE /\ result'.ret.out = "Ok"
                 /\ UnsafeEntityCell_id(result'.ret.v) = e
                 /\ Some(UnsafeEntityCell_location(result'.ret.v)) = entities[e]]_vars

C15_Witness ==
    /\ result.op = "get_entity_with_ticks"
    /\ ThroughReadOnly(result)
    /\ debug_assertions
    /\ result.ret.out = "Ok"
    /\ result.ret.v.entity = "e3"
    /\ result.ret.v.location = EntityLocation("arI", "t2", 0)

\* C16: the tick window of a sub-cell is the World's (last_change_tick,
\* change_tick) pair when get_entity builds it and the caller's pair when
\* get_entity_with_ticks builds it: get_entity(e) returns what
\* get_entity_with_ticks(e, last_change_tick(), change_tick()) returns in the
\* same state, and get_entity_with_ticks(e, l, r) carries exactly (l, r)
\* whatever the World's ticks are.
C16_TickWindow ==
    /\ result.op = "get_entity" =>
          /\ result.ret = get_entity_with_ticks(result.self, result.args[1],
                                                read_last_change_tick(result.self),
                                                read_change_tick(result.self))
          /\ result.ret.out = "Ok" =>
                /\ result.ret.v.last_run = last_change_tick
                /\ result.ret.v.this_run = change_tick
    /\ (result.op = "get_entity_with_ticks" /\ result.ret.out = "Ok") =>
          /\ result.ret.v.last_run = result.args[2]
          /\ result.ret.v.this_run = result.args[3]

C16_Witness ==
    /\ result.op = "get_entity_with_ticks"
    /\ result.ret.out = "Ok"
    /\ result.ret.v.this_run = result.args[3]
    /\ result.ret.v.this_run # change_tick
    /\ result.ret.v.last_run # last_change_tick
    /\ Len(returned_ticks) > 0


\* C17: for a live entity, through a sub-cell that carries the entity's current
\* location, and a component type the registry knows, get<T> returns absent
\* exactly when contains<T> returns false.
C17_AbsenceEquivalence ==
    /\ (result.op = "get" /\ result.args[1] \in DOMAIN ComponentTypeIds) =>
          ((result.ret = None) <=> ~contains(result.self, result.args[1]))
    /\ (result.op = "contains" /\ result.args[1] \in DOMAIN ComponentTypeIds) =>
          ((result.ret = FALSE) <=> (get(result.self, result.args[1]) = None))

C17_Witness ==
    /\ result.op = "get"
    /\ result.args = <<"B">>
    /\ result.self.entity = "e3"
    /\ Some(result.self.location) = entities["e3"]
    /\ result.ret = None
    /\ ~contains(result.self, "B")


----------------------------------------------------------------------------
(* C18 - C19: the resource accessors, checked under Spec *)

\* the accessors of the send-bound and of the thread-bound resources
SendResourceOps == {"get_resource", "get_resource_ref", "get_resource_by_id",
                    "get_resource_with_ticks", "get_resource_mut", "get_resource_mut_by_id"}
NonSendResourceOps == {"get_non_send_resource", "get_non_send_resource_by_id",
                       "get_non_send_with_ticks", "get_non_send_resource_mut",
                       "get_non_send_resource_mut_by_id"}
ResourceOps == SendResourceOps \cup NonSendResourceOps
\* those that take the type, and those that hand out a write handle
ByTypeResourceOps == {"get_resource", "get_resource_ref", "get_resource_mut",
                      "get_non_send_resource", "get_non_send_resource_mut"}
MutResourceOps == {"get_resource_mut", "get_resource_mut_by_id",
                   "get_non_send_resource_mut", "get_non_send_resource_mut_by_id"}

\* the call r names a resource that has no value: the type has no valid resource
\* id, the id has no entry in the storage the accessor reads, or the entry is empty
NoValue(r) ==
    LET known == r.op \in ByTypeResourceOps => r.args[1] \in DOMAIN ResourceTypeIds
        id == IF r.op \in ByTypeResourceOps THEN ResourceTypeIds[r.args[1]] ELSE r.args[1]
    IN  \/ ~known
        \/ IF r.op \in SendResourceOps
           THEN id \notin DOMAIN resources \/ ~resources[id].present
           ELSE id \notin DOMAIN non_send_resources \/ ~non_send_resources[id].present

\* the capability assertion of the call r passes
AssertionPasses(r) == debug_assertions => CellOf(r).allows_mutable_access

\* C18 as stated: every resource accessor, through every handle, returns absent
\* without panicking and without changing the World when the resource has no value.
C18_Original ==
    [][(result'.op \in ResourceOps /\ result = Idle /\ NoValue(result')) =>
          /\ result'.ret = None
          /\ UNCHANGED <<world_vars, storage_vars>>]_vars

\* C18: when the resource has no value, the read accessors return absent through
\* every handle and from every thread, and the accessors that hand out a write
\* handle return absent whenever their capability assertion passes; through a
\* read-only handle in a debug build these panic instead.  Either way the World
\* is unchanged.
C18_FailSoft ==
    [][(result'.op \in ResourceOps /\ result = Idle /\ NoValue(result')) =>
          /\ IF result'.op \in MutResourceOps /\ ~AssertionPasses(result')
             THEN result'.ret = Panicked(ForbiddenMessage)
             ELSE result'.ret = None
          /\ UNCHANGED <<world_vars, storage_vars>>]_vars

\* an empty thread-bound entry asked for a write handle from another thread than
\* the inserter's, through a handle that passes the assertion
C18_Witness ==
    /\ result.op = "get_non_send_resource_mut_by_id"
    /\ result.args = <<"rM", "worker">>
    /\ "rM" \in DOMAIN non_send_resources
    /\ ~non_send_resources["rM"].present
    /\ non_send_resources["rM"].origin_thread # "worker"
    /\ AssertionPasses(result)
    /\ result.ret = None


\* the component id the resource accessor call r resolves to
ResourceIdOf(r) ==
    IF r.op \in ByTypeResourceOps THEN ResourceTypeIds[r.args[1]] ELSE r.args[1]

\* C19 as stated: an access to a present thread-bound resource panics from every
\* thread other than the inserter's and succeeds from the inserter's.
C19_Original ==
    (result.op \in NonSendResourceOps /\ ~NoValue(result)) =>
        IF non_send_resources[ResourceIdOf(result)].origin_thread # result.args[2]
        THEN result.ret.out = "panic"
        ELSE result.ret.out = "Some"

\* C19: an access to a present thread-bound resource from a thread other than the
\* inserter's panics and hands out nothing; from the inserter's thread the read
\* accessors succeed, and the accessors that hand out a write handle succeed when
\* their capability assertion passes and panic otherwise.
C19_ThreadAffinity ==
    (result.op \in NonSendResourceOps /\ ~NoValue(result)) =>
        LET id == ResourceIdOf(result)
            forbidden == result.op \in MutResourceOps /\ ~AssertionPasses(result)
            ptr == IF result.op \in {"get_non_send_resource_mut",
                                     "get_non_send_resource_mut_by_id"}
                      THEN result.ret.v.value
                   ELSE IF result.op = "get_non_send_with_ticks" THEN result.ret.v.ptr
                   ELSE result.ret.v
        IN  IF forbidden THEN result.ret = Panicked(ForbiddenMessage)
            ELSE IF non_send_resources[id].origin_thread # result.args[2]
                 THEN result.ret.out = "panic"
            ELSE /\ result.ret.out = "Some"
                 /\ IF result.op = "get_non_send_resource"
                    THEN ptr = non_send_resources[id].value
                    ELSE ptr = NonSendPtr(id)

\* a write handle to a present thread-bound resource asked for on another thread
\* than the inserter's, through a handle that passes the assertion
C19_Witness ==
    /\ result.op = "get_non_send_resource_mut_by_id"
    /\ result.args = <<"rN", "worker">>
    /\ non_send_resources["rN"].present
    /\ non_send_resources["rN"].origin_thread = "main"
    /\ AssertionPasses(result)
    /\ result.ret.out = "panic"
    /\ result.ret # Panicked(ForbiddenMessage)


----------------------------------------------------------------------------
(* C20: the assume-mutable untyped accessor, checked under Spec *)

\* C20 as stated: get_mut_assume_mutable_by_id never returns ComponentIsImmutable,
\* returns what get_mut_by_id returns for an id that is unknown or mutable, and for
\* a known immutable component returns a write handle when the entity holds it and
\* ComponentNotFound when it does not.
C20_Original ==
    result.op = "get_mut_assume_mutable_by_id" =>
        LET id == result.args[1]
            e == result.self.entity IN
        /\ result.ret # Err("ComponentIsImmutable")
        /\ IF id \notin DOMAIN ComponentInfos \/ ComponentInfos[id].mutable
           THEN result.ret = get_mut_by_id(result.self, id)
           ELSE IF Holds(e, id)
                THEN result.ret.out = "Ok" /\ result.ret.v.value = DatumOf(e, id)
                ELSE result.ret = Err("ComponentNotFound")

\* C20: get_mut_assume_mutable_by_id never returns ComponentIsImmutable and returns
\* what get_mut_by_id returns for an id that is unknown or mutable; for a known
\* immutable component it panics when the capability assertion fails, and otherwise
\* returns a write handle to the entity's component when the entity holds it and
\* ComponentNotFound when it does not.
C20_SkipsMutabilityCheck ==
    result.op = "get_mut_assume_mutable_by_id" =>
        LET id == result.args[1]
            e == result.self.entity IN
        /\ result.ret # Err("ComponentIsImmutable")
        /\ IF id \notin DOMAIN ComponentInfos \/ ComponentInfos[id].mutable
           THEN result.ret = get_mut_by_id(result.self, id)
           ELSE /\ get_mut_by_id(result.self, id) \in
                       {Panicked(ForbiddenMessage), Err("ComponentIsImmutable")}
                /\ IF ~AssertionPasses(result)
                   THEN result.ret = Panicked(ForbiddenMessage)
                   ELSE IF Holds(e, id)
                        THEN /\ result.ret.out = "Ok"
                             /\ result.ret.v.value = DatumOf(e, id)
                             /\ result.ret.v.ticks.last_run = result.self.last_run
                             /\ result.ret.v.ticks.this_run = result.self.this_run
                        ELSE result.ret = Err("ComponentNotFound")

\* a write handle to the immutable component of the entity that holds it
C20_Witness ==
    /\ result.op = "get_mut_assume_mutable_by_id"
    /\ result.args = <<"cI">>
    /\ ~ComponentInfos["cI"].mutable
    /\ Holds(result.self.entity, "cI")
    /\ result.ret.out = "Ok"
    /\ get_mut_by_id(result.self, "cI") = Err("ComponentIsImmutable")


----------------------------------------------------------------------------
(* SpecHandles: a World with a read-only and a read-write cell at the same    *)
(* time, on both builds; the mutating methods are called through both, one    *)
(* thread keeps the write handles that are handed out and writes through      *)
(* them, and both cells read component A of e1 and the resource R.            *)

\* the sub-cells of e1 of both cells
HandleSubCells == WhenIdle(SubCells(cells, {"e1"}, {}))

InitHandles ==
    /\ InitWorld
    /\ cells = {new_readonly, new_mutable}

NextHandles ==
    \/ \E c \in cells : Call_world_mut(c)
    \/ \E c \in cells : Call_get_raw_command_queue(c)
    \/ \E c \in cells : Call_get_resource_mut(c, "R")
    \/ \E c \in cells : Call_get_resource_mut_by_id(c, "rR")
    \/ \E c \in cells : Call_get_resource(c, "R")
    \/ \E ec \in HandleSubCells : Call_get_mut(ec, "A")
    \/ \E ec \in HandleSubCells : Call_get_mut_by_id(ec, "cA")
    \/ \E ec \in HandleSubCells : Call_get(ec, "A")
    \/ Hold("main")
    \/ Drop("main")
    \/ \E v \in Values : Write("main", v)
    \/ Return

SpecHandles == InitHandles /\ [][NextHandles]_vars

\* C21: a read-only and a read-write handle to one World exist together; a
\* mutating method panics exactly when, in a debug build, the handle it is called
\* through has the bit unset, whatever other handles to the World exist; and a
\* read through the read-only handle returns the last value written through a
\* write handle.
C21_PerHandle ==
    /\ {new_readonly, new_mutable} \subseteq cells
    /\ result.op \in MutatingOps =>
          ((result.ret = Panicked(ForbiddenMessage))
              <=> (debug_assertions /\ ~CellOf(result).allows_mutable_access))
    /\ (result.op \in {"get", "get_resource"} /\ ThroughReadOnly(result)
            /\ TargetOf(result) \in DOMAIN written)
          => /\ result.ret.out = "Some"
             /\ ReadValue(result) = written[TargetOf(result)].value

\* in a debug build, the read-only handle reads the value written through a write
\* handle of the read-write handle
C21_Witness ==
    /\ debug_assertions
    /\ result.op = "get_resource"
    /\ result.self = new_readonly
    /\ ~result.self.allows_mutable_access
    /\ TargetOf(result) \in DOMAIN written
    /\ written[TargetOf(result)].by.from = new_mutable
    /\ result.ret = Some("v2")


----------------------------------------------------------------------------
(* C22: the release build, checked under Spec *)

\* what the mutating method `op` returns when called through `self` with `args`
Invoke(op, self, args) ==
    CASE op = "world_mut" -> world_mut(self)
      [] op = "get_raw_command_queue" -> get_raw_command_queue(self)
      [] op = "increment_trigger_id" -> increment_trigger_id(self).ret
      [] op = "get_resource_mut" -> get_resource_mut(self, args[1])
      [] op = "get_resource_mut_by_id" -> get_resource_mut_by_id(self, args[1])
      [] op = "get_non_send_resource_mut" -> get_non_send_resource_mut(self, args[1], args[2])
      [] op = "get_non_send_resource_mut_by_id" ->
              get_non_send_resource_mut_by_id(self, args[1], args[2])
      [] op = "get_mut" -> get_mut(self, args[1])
      [] op = "get_mut_assume_mutable" -> get_mut_assume_mutable(self, args[1])
      [] op = "get_mut_by_id" -> get_mut_by_id(self, args[1])
      [] op = "get_mut_assume_mutable_by_id" -> get_mut_assume_mutable_by_id(self, args[1])

\* the receiver of the call r, had its handle been made by the read-write constructor
OnReadWrite(r) ==
    IF r.op \in EntityOps THEN [r.self EXCEPT !.world = new_mutable] ELSE new_mutable

\* C22: in a build without debug assertions no mutating method called through a
\* handle of the read-only constructor ends in the capability panic; each returns
\* what the same call through a handle of the read-write constructor returns, and
\* increment_trigger_id advances the trigger id as it does there.
C22_ReleaseNoGuard ==
    [][(~debug_assertions /\ result = Idle
          /\ result'.op \in MutatingOps \cup {"increment_trigger_id"}
          /\ ThroughReadOnly(result'))
        => /\ result'.ret # Panicked(ForbiddenMessage)
           /\ result'.ret = Invoke(result'.op, OnReadWrite(result'), result'.args)
           /\ last_trigger_id' = IF result'.op = "increment_trigger_id"
                                 THEN increment_trigger_id(new_mutable).last_trigger_id
                                 ELSE last_trigger_id
           /\ UNCHANGED storage_vars]_vars

\* in a release build a sub-cell of a read-only handle hands out a write handle
C22_Witness ==
    /\ ~debug_assertions
    /\ result.op = "get_mut_by_id"
    /\ ThroughReadOnly(result)
    /\ result.ret.out = "Ok"
    /\ result.ret = get_mut_by_id(OnReadWrite(result), result.args[1])


----------------------------------------------------------------------------
(* C23: the presence predicates, checked under Spec *)

\* C23: contains, contains_type_id and contains_id return a boolean through every
\* handle (never a panic or an error): contains<T> and contains_type_id of T's TypeId
\* agree, both equal contains_id of the id the registry maps T to and are false when
\* the registry has no id for T; contains_id tells whether the archetype of the
\* sub-cell's location lists the id; none of the three changes World state.
C23_PresencePredicates ==
    [][(result = Idle /\ result'.op \in {"contains", "contains_type_id", "contains_id"}) =>
          LET self == result'.self
              a == result'.args[1]
          IN /\ result'.ret \in BOOLEAN
             /\ result'.op \in {"contains", "contains_type_id"} =>
                   /\ result'.ret = contains(self, a)
                   /\ result'.ret = contains_type_id(self, a)
                   /\ IF a \in DOMAIN ComponentTypeIds
                      THEN result'.ret = contains_id(self, ComponentTypeIds[a])
                      ELSE result'.ret = FALSE
             /\ result'.op = "contains_id" =>
                   (result'.ret <=> a \in Archetypes[self.location.archetype_id])
             /\ UNCHANGED <<world_vars, storage_vars>>]_vars

\* in a debug build, through a sub-cell of a read-only handle, contains<B> is true
\* and contains<X>, for the unregistered X, would be false
C23_Witness ==
    /\ debug_assertions
    /\ result.op = "contains"
    /\ ThroughReadOnly(result)
    /\ result.args = <<"B">>
    /\ result.ret = TRUE
    /\ contains_id(result.self, "cB")
    /\ contains(result.self, "X") = FALSE


----------------------------------------------------------------------------
(* SpecSnapshot: a World with a read-write cell whose change tick advances;   *)
(* one thread obtains, holds, writes through and drops write handles to       *)
(* component A of e1, from sub-cells built now, at an earlier tick or with a  *)
(* window of the caller, and to the resource R.                               *)

InitSnapshot ==
    /\ InitWorld
    /\ cells = {new_mutable}

NextSnapshot ==
    \/ \E c \in cells : Call_increment_change_tick(c)
    \/ \E ec \in TickSubCells : Call_get_mut(ec, "A")
    \/ \E ec \in TickSubCells : Call_get_mut_by_id(ec, "cA")
    \/ \E ec \in TickSubCells : Call_get_mut_assume_mutable_by_id(ec, "cA")
    \/ \E c \in cells : Call_get_resource_mut(c, "R")
    \/ \E c \in cells : Call_get_resource_mut_by_id(c, "rR")
    \/ Hold("main")
    \/ Drop("main")
    \/ Write("main", "v1")
    \/ Return

SpecSnapshot == InitSnapshot /\ [][NextSnapshot]_vars

\* C24: a write through a component write handle (get_mut, get_mut_by_id,
\* get_mut_assume_mutable_by_id) sets the component's changed tick to the this_run the
\* sub-cell was built with - a World change tick seen when a sub-cell was built, or the
\* caller's this_run - however far the World's change tick has advanced when the handle
\* is obtained and when it is written through; a write through a resource write handle
\* sets the resource's changed tick to the World's change tick at the time the handle
\* was obtained.
C24_WindowIsSnapshot ==
    [][result'.op = "write" =>
          \A h \in {result'.self} :
          IF "entity" \in DOMAIN h.target
          THEN /\ Deref(DatumOf(h.target.entity, h.target.component_id))'.changed
                     = h.from.this_run
               /\ h.mut.ticks.this_run = h.from.this_run
               /\ h.from.this_run \in ticks_seen \cup {w[2] : w \in TickWindows}
          ELSE /\ resources'[h.target.resource].changed = h.at
               /\ h.mut.ticks.this_run = h.at]_vars

\* a component written through a handle of a sub-cell built two increments ago,
\* obtained one increment ago, after a resource was written through a handle obtained
\* at a later tick than the one the World started with
C24_Witness ==
    /\ result.op = "write"
    /\ "entity" \in DOMAIN result.self.target
    /\ result.self.from.this_run \in ticks_seen
    /\ result.self.from.this_run # result.self.at
    /\ result.self.at # change_tick
    /\ result.self.from.this_run # change_tick
    /\ Deref(DatumOf("e1", "cA")).changed = result.self.from.this_run
    /\ [resource |-> "rR"] \in DOMAIN written
    /\ resources["rR"].changed = written[[resource |-> "rR"]].by.at
    /\ resources["rR"].changed # SpawnTick


----------------------------------------------------------------------------
(* SpecMove: callers keep sub-cells of e1 while the World removes component A *)
(* (table-stored: e1 moves to the table without columns and the last row of   *)
(* its old table takes its row) or component B (sparse-set-stored: e1 changes *)
(* archetype, keeps its table row and leaves the sparse set) from e1; the     *)
(* kept sub-cells are then read.                                              *)

MoveIds == {"cA", "cB", "cS"}
MoveTypes == {"A", "B", "S"}

\* the caller keeps the sub-cell get_entity returned
Keep ==
    /\ result # Idle
    /\ result.op = "get_entity"
    /\ result.ret.out = "Ok"
    /\ sub_cells' = sub_cells \cup {result.ret.v}
    /\ result' = Idle
    /\ UNCHANGED <<debug_assertions, world_vars, storage_vars, cells, muts, pending,
                   history_vars>>

\* the kept sub-cells the next call can be made through
KeptSubCells == WhenIdle(sub_cells)

\* World::entity_mut(e).remove::<A>(): the entity moves to archetype arB and table t0;
\* its row of the old table is swap-removed, and the entity of the last row takes it
remove_table_component(e) ==
    LET loc == entities[e].v
        last == Cardinality(DOMAIN tables[loc.table_id]["cA"]) - 1
        row0 == Cardinality({x \in Entities : entities[x].out = "Some"
                                                /\ entities[x].v.table_id = "t0"})
    IN /\ result = Idle
       /\ \A t \in Threads : muts[t] = NoMut
       /\ entities[e].out = "Some"
       /\ loc.archetype_id = "arAB"
       /\ tables' = [tables EXCEPT ![loc.table_id] =
                        [cid \in DOMAIN @ |->
                            [row \in 0 .. last - 1 |->
                                IF row = loc.table_row THEN @[cid][last] ELSE @[cid][row]]]]
       /\ entities' = [x \in DOMAIN entities |->
                        IF x = e THEN Some(EntityLocation("arB", "t0", row0))
                        ELSE IF entities[x] = Some([loc EXCEPT !.table_row = last])
                             THEN Some([entities[x].v EXCEPT !.table_row = loc.table_row])
                        ELSE entities[x]]
       /\ UNCHANGED <<debug_assertions, change_tick, last_change_tick, last_trigger_id,
                      sparse_sets, resources, non_send_resources, handle_vars, result,
                      history_vars>>

\* World::entity_mut(e).remove::<B>(): the entity moves to archetype arA, keeps its table
\* and row, and is taken out of the sparse set of B
remove_sparse_component(e) ==
    LET loc == entities[e].v IN
    /\ result = Idle
    /\ \A t \in Threads : muts[t] = NoMut
    /\ entities[e].out = "Some"
    /\ loc.archetype_id = "arAB"
    /\ sparse_sets' = [sparse_sets EXCEPT !["cB"] =
                          [x \in DOMAIN @ \ {e} |-> @[x]]]
    /\ entities' = [entities EXCEPT ![e] = Some([loc EXCEPT !.archetype_id = "arA"])]
    /\ UNCHANGED <<debug_assertions, change_tick, last_change_tick, last_trigger_id,
                   tables, resources, non_send_resources, handle_vars, result,
                   history_vars>>

InitMove ==
    /\ InitWorld
    /\ cells = {new_readonly, new_mutable}

NextMove ==
    \/ \E c \in cells : Call_get_entity(c, "e1")
    \/ Keep
    \/ remove_table_component("e1")
    \/ remove_sparse_component("e1")
    \/ \E ec \in KeptSubCells : Call_location(ec)
    \/ \E ec \in KeptSubCells, id \in MoveIds : Call_contains_id(ec, id)
    \/ \E ec \in KeptSubCells, id \in MoveIds : Call_get_by_id(ec, id)
    \/ \E ec \in KeptSubCells, T \in MoveTypes : Call_get(ec, T)
    \/ Return

SpecMove == InitMove /\ [][NextMove]_vars

\* the pointer the storage of the component's kind holds under the sub-cell's key:
\* (cached table id, cached row) of a column of a table, or (component id, entity) of
\* a sparse set
StoredUnder(self, component_id) ==
    IF ComponentInfos[component_id].storage_type = "Table"
    THEN IF self.location.table_id \in DOMAIN tables
              /\ component_id \in DOMAIN tables[self.location.table_id]
         THEN Some(TablePtr(self.location.table_id, component_id, self.location.table_row))
         ELSE None
    ELSE IF component_id \in DOMAIN sparse_sets
              /\ self.entity \in DOMAIN sparse_sets[component_id]
         THEN Some(SparsePtr(component_id, self.entity))
         ELSE None

\* the location the World started e1 at
FirstLocation == EntityLocation("arAB", "t1", 0)

\* C25: a lookup through a kept sub-cell uses the key of the component's storage kind
\* only: a table-stored component is found at the sub-cell's cached table id and row
\* and is absent when that table has no column for it; a sparse-set-stored component
\* is found under (component id, entity id) whatever the cached location and is absent
\* when there is no sparse set for it or the entity is not in the set.  A sub-cell
\* kept across a structural change reports the location it was built with.
C25_StorageDispatch ==
    /\ result.op = "get_by_id" => result.ret = StoredUnder(result.self, result.args[1])
    /\ result.op = "get" =>
          LET ptr == StoredUnder(result.self, ComponentTypeIds[result.args[1]]) IN
          IF ptr.out = "None" THEN result.ret = None
          ELSE result.ret = Some(Deref(ptr.v).value)
    /\ result.op = "location" => result.ret = result.self.location
    /\ \A ec \in sub_cells : ec.location \in {FirstLocation, entities[ec.entity].v}
    /\ entities["e1"].v # FirstLocation =>
          \A ec \in sub_cells : ec.location = FirstLocation =>
              /\ UnsafeEntityCell_location(ec) = FirstLocation
              /\ get_by_id(ec, "cA") = Some(TablePtr("t1", "cA", 0))

\* after A was removed from e1, a sub-cell of e1 kept from before still finds a
\* pointer at its old table row, and B by the entity id
C25_Witness ==
    /\ result.op = "get_by_id"
    /\ result.args = <<"cA">>
    /\ result.self \in sub_cells
    /\ result.self.location = FirstLocation
    /\ entities["e1"] = Some(EntityLocation("arB", "t0", 0))
    /\ entities["e2"] = Some(EntityLocation("arAB", "t1", 0))
    /\ result.ret = Some(TablePtr("t1", "cA", 0))
    /\ get_by_id(result.self, "cB") = Some(SparsePtr("cB", "e1"))
    /\ get_by_id(result.self, "cS") = None


----------------------------------------------------------------------------
(* SpecQuery: get_components called with every query descriptor through the  *)
(* sub-cells of every live entity, of both cells, built now, at an earlier    *)
(* tick or with a window of the caller.                                       *)

InitQuery ==
    /\ InitWorld
    /\ cells = {new_readonly, new_mutable}

NextQuery ==
    \/ \E c \in cells : Call_increment_change_tick(c)
    \/ \E ec \in Receivers, Q \in Queries : Call_get_components(ec, Q)
    \/ Return

SpecQuery == InitQuery /\ [][NextQuery]_vars

\* the names of the descriptor calls of the call r, in order
CallNames(r) == [i \in 1 .. Len(r.calls) |-> r.calls[i].fn]

\* C26: get_components calls get_state first; without a state it returns None and
\* calls nothing else; it then calls matches_component_set with the archetype of the
\* sub-cell's cached location, and on a mismatch returns None without init_fetch,
\* set_archetype or fetch; on a match it calls init_fetch with the sub-cell's last_run
\* and this_run, set_archetype, fetch with the sub-cell's entity and table row, and
\* release_state, once each and in this order, and returns the item.
C26_FetchProtocol ==
    result.op = "get_components" =>
        LET Q == result.args[1]
            self == result.self
            calls == result.calls
            matched == Q.required \subseteq Archetypes[self.location.archetype_id]
        IN /\ calls[1] = [fn |-> "get_state"]
           /\ ~Q.state => result.ret = None /\ CallNames(result) = <<"get_state">>
           /\ Q.state => /\ Len(calls) >= 2
                         /\ calls[2] = [fn |-> "matches_component_set",
                                        archetype |-> self.location.archetype_id]
           /\ (Q.state /\ ~matched) =>
                 /\ result.ret = None
                 /\ CallNames(result) = <<"get_state", "matches_component_set">>
           /\ (Q.state /\ matched) =>
                 /\ CallNames(result) = <<"get_state", "matches_component_set", "init_fetch",
                                          "set_archetype", "fetch", "release_state">>
                 /\ calls[3].last_run = self.last_run
                 /\ calls[3].this_run = self.this_run
                 /\ calls[5].entity = self.entity
                 /\ calls[5].table_row = self.location.table_row
                 /\ result.ret.out = "Some"

\* a matching query through a sub-cell built with the caller's window, on the second
\* row of its table
C26_Witness ==
    /\ result.op = "get_components"
    /\ result.args[1].q = "AB"
    /\ result.self.entity = "e2"
    /\ result.self.this_run = <<0, 9>>
    /\ Len(result.calls) = 6
    /\ result.calls[3].this_run = <<0, 9>>
    /\ result.calls[5].table_row = 1
    /\ result.ret.out = "Some"


----------------------------------------------------------------------------
(* SpecPresence: a World with a read-write cell, started at the tick of its   *)
(* content or at a later one; every lookup of the components A (table), B     *)
(* (sparse set), I (immutable) and S (registered, never inserted) is made     *)
(* through sub-cells of e1 and e3 that carry the entity's current location,   *)
(* and one thread writes through the write handles it obtains.                *)

PresenceTypes == {"A", "B", "I", "S"}
PresenceIds == {"cA", "cB", "cI", "cS"}

\* the sub-cells of e1 and e3, built by get_entity
PresenceSubCells == WhenIdle(SubCells(cells, {"e1", "e3"}, {}))

InitPresence ==
    /\ InitWorld
    /\ cells = {new_mutable}

NextPresence ==
    \/ \E ec \in PresenceSubCells, T \in PresenceTypes : Call_get(ec, T)
    \/ \E ec \in PresenceSubCells, T \in PresenceTypes : Call_get_ref(ec, T)
    \/ \E ec \in PresenceSubCells, id \in PresenceIds : Call_get_by_id(ec, id)
    \/ \E ec \in PresenceSubCells, T \in PresenceTypes : Call_get_change_ticks(ec, T)
    \/ \E ec \in PresenceSubCells, id \in PresenceIds : Call_get_change_ticks_by_id(ec, id)
    \/ \E ec \in PresenceSubCells, T \in PresenceTypes : Call_get_mut(ec, T)
    \/ \E ec \in PresenceSubCells, id \in PresenceIds :
            Call_get_mut_assume_mutable_by_id(ec, id)
    \/ Hold("main")
    \/ Drop("main")
    \/ Write("main", "v1")
    \/ Return

SpecPresence == InitPresence /\ [][NextPresence]_vars

\* the component type the registry maps to the id
TypeOf(component_id) ==
    CHOOSE T \in DOMAIN ComponentTypeIds : ComponentTypeIds[T] = component_id

\* C27: through a sub-cell that carries the entity's current location, for a
\* registered component, get, get_ref, get_by_id, get_change_ticks and
\* get_change_ticks_by_id all find the component or all report it absent, and the call
\* made is one of them or, through a read-write cell, a get_mut or
\* get_mut_assume_mutable_by_id that succeeds exactly when they find it; when present,
\* get_change_ticks returns the added and changed ticks get_ref exposes.
C27_LookupsAgree ==
    (result.op \in {"get", "get_ref", "get_by_id", "get_change_ticks",
                    "get_change_ticks_by_id", "get_mut", "get_mut_assume_mutable_by_id"}
        /\ TargetOf(result).component_id \in DOMAIN ComponentInfos
        /\ Some(result.self.location) = entities[result.self.entity]) =>
        LET self == result.self
            id == TargetOf(result).component_id
            T == TypeOf(id)
            found == {get(self, T).out = "Some", get_ref(self, T).out = "Some",
                      get_by_id(self, id).out = "Some",
                      get_change_ticks(self, T).out = "Some",
                      get_change_ticks_by_id(self, id).out = "Some"}
        IN /\ Cardinality(found) = 1
           /\ (result.op \notin MutOps \/ ThroughReadWrite(result)) =>
                 ((result.ret.out \in {"Some", "Ok"}) \in found)
           /\ TRUE \in found =>
                 /\ get_change_ticks(self, T).v.added = get_ref(self, T).v.ticks.added
                 /\ get_change_ticks(self, T).v.changed = get_ref(self, T).v.ticks.changed
                 /\ get_change_ticks_by_id(self, id) = get_change_ticks(self, T)

\* get_change_ticks of a component that was written at a later tick than it was added
C27_Witness ==
    /\ result.op = "get_change_ticks"
    /\ Some(result.self.location) = entities[result.self.entity]
    /\ result.ret.out = "Some"
    /\ result.ret.v.changed # result.ret.v.added
    /\ result.ret.v.changed = get_ref(result.self, result.args[1]).v.ticks.changed
    /\ get_mut(result.self, result.args[1]).out = "Some"
    /\ get_mut_assume_mutable_by_id(result.self, "cS") = Err("ComponentNotFound")


----------------------------------------------------------------------------
(* C28: the order of the checks of get_mut_by_id, checked under Spec *)

-----------------------------------------------------------------------------
(* SpecAtomic: both threads call increment_change_tick at the same time,      *)
(* through a read-only and a read-write cell, on both builds, with the        *)
(* counter starting at 1 or at u32::MAX. A call is entered, performs its one  *)
(* fetch_add on the AtomicU32, and returns; the steps of the two threads      *)
(* interleave freely.                                                         *)

\* the calls entered so far
CallsIssued == Len(returned_ticks) + Cardinality({t \in Threads : pending[t] # NoCall})

\* thread t enters increment_change_tick through the cell c
Enter_increment_change_tick(t, c) ==
    /\ result = Idle
    /\ pending[t] = NoCall
    /\ CallsIssued <= MaxIncr
    /\ pending' = [pending EXCEPT ![t] = [pc |-> "fetch_add", self |-> c,
                                          entered |-> change_tick]]
    /\ UNCHANGED <<debug_assertions, world_vars, storage_vars, cells, muts, sub_cells,
                   result, history_vars>>

\* thread t performs change_tick.fetch_add(1, Ordering::Relaxed)
FetchAdd_increment_change_tick(t) ==
    /\ pending[t].pc = "fetch_add"
    /\ LET r == increment_change_tick(pending[t].self) IN
          /\ change_tick' = r.change_tick
          /\ ticks_seen' = ticks_seen \cup {r.change_tick}
          /\ pending' = [pending EXCEPT ![t] = [pc |-> "return", self |-> pending[t].self,
                                                ret |-> r.ret.v]]
    /\ UNCHANGED <<debug_assertions, last_change_tick, last_trigger_id, entities,
                   storage_vars, cells, muts, sub_cells, result, ntrig, returned_ticks,
                   written>>

\* thread t returns Tick::new(the fetched value) to its caller
Return_increment_change_tick(t) ==
    /\ pending[t].pc = "return"
    /\ returned_ticks' = Append(returned_ticks, pending[t].ret)
    /\ pending' = [pending EXCEPT ![t] = NoCall]
    /\ UNCHANGED <<debug_assertions, world_vars, storage_vars, cells, muts, sub_cells,
                   result, ticks_seen, ntrig, written>>

InitAtomic ==
    /\ InitWorld
    /\ cells = {new_readonly, new_mutable}

NextAtomic ==
    \/ \E t \in Threads, c \in cells : Enter_increment_change_tick(t, c)
    \/ \E t \in Threads : FetchAdd_increment_change_tick(t)
    \/ \E t \in Threads : Return_increment_change_tick(t)

SpecAtomic == InitAtomic /\ [][NextAtomic]_vars

RECURSIVE wrapping_add(_, _)
\* u32::wrapping_add(tick, n)
wrapping_add(tick, n) == IF n = 0 THEN tick ELSE wrapping_add(wrapping_add_1(tick), n - 1)

\* the threads that have fetched a value and not yet returned it
Fetched == {t \in Threads : pending[t].pc = "return"}

\* the values the calls have obtained so far
Obtained ==
    {returned_ticks[i] : i \in 1..Len(returned_ticks)} \cup {pending[t].ret : t \in Fetched}

\* C29: whatever the interleaving of the calls of the two threads, through
\* whichever cell, the N values obtained are pairwise distinct, are exactly
\* initial, initial + 1, ..., initial + N - 1 modulo 2^32, and the counter is
\* initial + N modulo 2^32.
C29_AtomicIncrement ==
    \E initial \in InitChangeTicks :
       LET N == Len(returned_ticks) + Cardinality(Fetched) IN
       /\ Cardinality(Obtained) = N
       /\ Obtained = {wrapping_add(initial, k) : k \in 0..(N - 1)}
       /\ change_tick = wrapping_add(initial, N)

\* three calls have returned, starting at u32::MAX: the counter is 2, and the call
\* that fetched the earlier value returned after the one that fetched the later
C29_Witness ==
    /\ \A t \in Threads : pending[t] = NoCall
    /\ Len(returned_ticks) = 3
    /\ U32Max \in Obtained
    /\ returned_ticks[1] = wrapping_add_1(returned_ticks[2])
    /\ change_tick = wrapping_add(U32Max, 3)
====
